---- MODULE Spec2Model ----
(***************************************************************************)
(* Model of the segment-download orchestrator of cfs-dl:                   *)
(* DownloadStream, its five worker goroutines, the goroutine that closes   *)
(* the results channel, and the cancellation context.                      *)
(*                                                                         *)
(* Spec          the whole orchestrator on small streams.                  *)
(* SpecEstimate  the main goroutine up to close(jobs) on a wider range of  *)
(*               durations, for the segment-count estimation.              *)
(***************************************************************************)
EXTENDS Integers, Sequences, FiniteSets, Bags, TLC

(***************************************************************************)
(* Bounds of the model.                                                    *)
(***************************************************************************)
MaxTotal == 2
EstMaxTotal == 11
EstMaxDuration == 9
EstMaxTimescale == 7

(* Inputs of Spec: total duration in whole seconds, segment duration and   *)
(* timescale of the SegmentTemplate, first segment number.                 *)
Totals == 0..MaxTotal
Durations == {1, 2}
Timescales == {1}
StartNumbers == {1}

(* Inputs of SpecEstimate.                                                 *)
EstStartNumbers == {0, 1}
EstTotals == 0..EstMaxTotal
EstDurations == 1..EstMaxDuration
EstTimescales == 1..EstMaxTimescale

(* Which of the URL strings url.Parse rejects: none, the base URL, the     *)
(* Initialization path, or the Media pattern.                              *)
UrlFaults == {"none", "base", "init", "media"}

(***************************************************************************)
(* IEEE-754 binary64 arithmetic on positive values, as Go's float64.       *)
(* A value is [m, e] = m * 2^e with a 53-bit mantissa m kept in two limbs  *)
(* <<hi, lo>> = hi * 2^27 + lo, or the zero F64Zero.                       *)
(***************************************************************************)
Limb == 2 ^ 27

Pow2(n) == 2 ^ n

Log2(n) == CHOOSE k \in 0..25 : Pow2(k) <= n /\ n < Pow2(k + 1)

MZero == <<0, 0>>

MGeq(x, y) == x[1] > y[1] \/ (x[1] = y[1] /\ x[2] >= y[2])

MSub(x, y) ==
    IF x[2] >= y[2] THEN <<x[1] - y[1], x[2] - y[2]>>
    ELSE <<x[1] - y[1] - 1, x[2] + Limb - y[2]>>

MDbl(x) == <<2 * x[1] + (2 * x[2]) \div Limb, (2 * x[2]) % Limb>>

MInc(x) == IF x[2] + 1 = Limb THEN <<x[1] + 1, 0>> ELSE <<x[1], x[2] + 1>>

MOdd(x) == x[2] % 2 = 1

F64Zero == [m |-> MZero, e |-> 0]

(* float64(n) of an integer 0 <= n < 2^26: exact.                          *)
Float64(n) ==
    IF n = 0 THEN F64Zero
    ELSE [m |-> <<n * Pow2(25 - Log2(n)), 0>>, e |-> Log2(n) - 52]

(* One step of restoring binary long division: the next quotient bit.      *)
DivStep(s, d) ==
    LET r2 == MDbl(s.r)
    IN IF MGeq(r2, d) THEN [r |-> MSub(r2, d), q |-> MInc(MDbl(s.q))]
       ELSE [r |-> r2, q |-> MDbl(s.q)]

(* Quotient bits until the quotient has 53 of them (52 after the leading   *)
(* one, four per round).                                                   *)
RECURSIVE DivBits(_, _)
DivBits(s, d) ==
    IF s.q[1] >= Limb \div 4 THEN s
    ELSE DivBits(DivStep(DivStep(DivStep(DivStep(s, d), d), d), d), d)

(* a / b for b > 0, rounded to nearest, ties to even.                      *)
F64Div(a, b) ==
    IF a.m = MZero THEN F64Zero
    ELSE LET lead == MGeq(a.m, b.m)
             r0 == IF lead THEN MSub(a.m, b.m) ELSE MSub(MDbl(a.m), b.m)
             e0 == (IF lead THEN 0 ELSE -1) + a.e - b.e - 52
             s == DivBits([r |-> r0, q |-> <<0, 1>>], b.m)
             r2 == MDbl(s.r)
             rb == MGeq(r2, b.m)
             st == IF rb THEN MSub(r2, b.m) # MZero ELSE r2 # MZero
             up == rb /\ (st \/ MOdd(s.q))
             q1 == IF up THEN MInc(s.q) ELSE s.q
         IN IF q1[1] = Limb \div 2 THEN [m |-> <<Limb \div 4, 0>>, e |-> e0 + 1]
            ELSE [m |-> q1, e |-> e0]

(* Go's int(f) for 0 <= f < 2^26: truncation.                              *)
F64ToInt(f) ==
    IF f.m = MZero \/ f.e < -52 THEN 0
    ELSE IF f.e <= -27 THEN f.m[1] \div Pow2(-f.e - 27)
    ELSE f.m[1] * Pow2(27 + f.e) + f.m[2] \div Pow2(-f.e)

F64Pos(f) == f.m # MZero

(***************************************************************************)
(* Segment count estimation of DownloadStream.                             *)
(***************************************************************************)
EstimateNoExtra(total, dur, ts) ==
    LET segDurationSecs == F64Div(Float64(dur), Float64(ts))
    IN F64ToInt(F64Div(Float64(total), segDurationSecs))

(* The estimate that adds the extra segment whatever the total.            *)
EstimateAlwaysExtra(total, dur, ts) ==
    LET segDurationSecs == F64Div(Float64(dur), Float64(ts))
    IN F64ToInt(F64Div(Float64(total), segDurationSecs)) + 1

EstimateSegments(total, dur, ts) ==
    LET segDurationSecs == F64Div(Float64(dur), Float64(ts))
        totalSegments == F64ToInt(F64Div(Float64(total), segDurationSecs))
    IN IF F64Pos(Float64(total)) /\ F64Pos(segDurationSecs)
       THEN totalSegments + 1
       ELSE totalSegments

(* An int beyond every channel capacity that can be allocated: it stands   *)
(* for the largest int64, and -Huge for the smallest.                      *)
Huge == 2 ^ 30

(* The values the build can give totalSegments.  With a positive duration  *)
(* and timescale it is the one of EstimateSegments.  With timescale = 0    *)
(* and a positive duration segDurationSecs is +Inf, the quotient is 0 and  *)
(* the extra segment is added for a positive total.  With duration = 0     *)
(* the quotient is +Inf (total > 0, timescale > 0) or NaN, nothing is      *)
(* added, and int() of it is implementation-dependent: the smallest int64  *)
(* on amd64, the largest (+Inf) or 0 (NaN) on arm64.                       *)
EstimateOutcomes(total, dur, ts) ==
    IF dur > 0 /\ ts > 0 THEN {EstimateSegments(total, dur, ts)}
    ELSE IF dur > 0 THEN {IF total > 0 THEN 1 ELSE 0}
    ELSE IF total > 0 /\ ts > 0 THEN {-Huge, Huge}
    ELSE {-Huge, 0}

(***************************************************************************)
(* Data.                                                                   *)
(***************************************************************************)
workerCount == 5

(* Body of the initialization segment and of media segment n.              *)
InitData == <<1, 2>>

Payload(n) == <<10 + n, 20 + n>>

(* Errors: kind is what DownloadStream reports, index the segment number   *)
(* in the message, cause the wrapped error.                                *)
MkErr(kind, index, cause) == [kind |-> kind, index |-> index, cause |-> cause]

Nil == MkErr("nil", -1, "none")

(* The value context.Canceled itself, which main.run compares with ==.     *)
Canceled == MkErr("canceled", -1, "canceled")

NoResult == [index |-> -1, data |-> <<>>, err |-> "none"]

(* The state of one worker goroutine: where it is, the index it took and   *)
(* the result it is about to publish.  The goroutines are anonymous, so    *)
(* wk is the bag of their states.                                          *)
SelectWorker == [pc |-> "select", segNum |-> -1, res |-> NoResult]

ExitedWorker == [pc |-> "exit", segNum |-> -1, res |-> NoResult]

Prefixes(s) == {SubSeq(s, 1, k) : k \in 0..(Len(s) - 1)}

VARIABLES
    totalDurationSecs, rep, urlFault, faulty,
    cancelled,
    pc, tmpOpen, sink, totalSegments, i, segMap, nextToWrite, ret,
    jobs, jobsClosed, results, resultsClosed, wg,
    wk, closer,
    initDone, written, fetched, fetchFailed, arrival, cancelAt,
    enqueued, taken, fetches, published,
    disk, created,
    checkDeps, urlGiven, ffmpeg,
    rpc, stdout, exitCode, videoFile, audioFile, merged, sigAt, steps, failed,
    mpd, targetHeight, videoSel, audioSel,
    base, relative, resolved,
    exchange, fetchRet,
    name, safe

(* The arguments of the call and its environment: which URL does not      *)
(* parse, and whether the server, the network or the disk may fail.        *)
inputs == <<totalDurationSecs, rep, urlFault, faulty>>
mainVars == <<pc, tmpOpen, sink, totalSegments, i, segMap, nextToWrite, ret>>
chanVars == <<jobs, jobsClosed, results, resultsClosed, wg>>
ghostVars == <<initDone, written, fetched, fetchFailed, arrival, cancelAt>>

(* How often each index was sent on jobs, received from jobs, requested    *)
(* from the server and sent on results.                                    *)
dispatchVars == <<enqueued, taken, fetches, published>>

(* The temp files on disk and every temp file this process created.        *)
fsVars == <<disk, created>>

(* The flags --check-dependencies and --url of the command line, and       *)
(* whether ffmpeg is in the PATH.                                          *)
runInputs == <<checkDeps, urlGiven, ffmpeg>>

(* main.run: its position, what it printed, its exit code, its locals,     *)
(* whether the merge was invoked, where run was when the signal came, the  *)
(* steps it has begun and the step that returned an error.                 *)
runVars == <<runInputs, rpc, stdout, exitCode, videoFile, audioFile, merged, sigAt,
            steps, failed>>

(* The manifest and the target height the two selections are called with   *)
(* and what each returned; the two strings resolveSegmentUrl is called     *)
(* with and what each of its calls returned; one HTTP exchange and what the *)
(* function that made the request returned; a title and what               *)
(* sanitizeFilename made of it, and of that.                               *)
callVars == <<mpd, targetHeight, videoSel, audioSel, base, relative, resolved,
              exchange, fetchRet, name, safe>>

(* Number of results the collector has received.                           *)
received == Len(arrival)
vars == <<inputs, cancelled, mainVars, chanVars, wk, closer, ghostVars,
          dispatchVars, fsVars, runVars, callVars>>

(* The name os.CreateTemp gives the file of this call: one name for each   *)
(* of the two calls main.run makes.                                        *)
TmpName == IF rpc = "audio" THEN "stream-2.mp4" ELSE "stream-1.mp4"

startNum == rep.StartNumber
endNum == startNum + totalSegments

InitState ==
    /\ cancelled = FALSE
    /\ pc = "create"
    /\ tmpOpen = FALSE
    /\ sink = <<>>
    /\ totalSegments = 0
    /\ i = 0
    /\ segMap = <<>>
    /\ nextToWrite = 0
    /\ ret = [path |-> "", err |-> Nil]
    /\ jobs = <<>>
    /\ jobsClosed = FALSE
    /\ results = <<>>
    /\ resultsClosed = FALSE
    /\ wg = 0
    /\ wk = EmptyBag
    /\ closer = "none"
    /\ initDone = FALSE
    /\ written = <<>>
    /\ fetched = {}
    /\ fetchFailed = {}
    /\ arrival = <<>>
    /\ cancelAt = "never"
    /\ enqueued = EmptyBag
    /\ taken = EmptyBag
    /\ fetches = EmptyBag
    /\ published = EmptyBag

(* A value for the result of a call that was not made.                     *)
NotCalled == [at |-> <<>>, err |-> "not called"]

(* No HTTP exchange is looked at on its own.                               *)
NoFetchCall ==
    /\ exchange = <<>>
    /\ fetchRet = NotCalled

(* sanitizeFilename is not called.                                         *)
NoSanitize ==
    /\ name = <<>>
    /\ safe = <<>>

(* None of the functions of the manifest and of the segment URL is called. *)
NoCall ==
    /\ mpd = <<>>
    /\ targetHeight = 0
    /\ videoSel = NotCalled
    /\ audioSel = NotCalled
    /\ base = <<>>
    /\ relative = <<>>
    /\ resolved = <<>>
    /\ NoFetchCall
    /\ NoSanitize

(* DownloadStream called on its own, as the downloader tests call it.      *)
NoRun ==
    /\ disk = {}
    /\ created = {}
    /\ checkDeps = FALSE
    /\ urlGiven = TRUE
    /\ ffmpeg = TRUE
    /\ rpc = "none"
    /\ stdout = <<>>
    /\ exitCode = -1
    /\ videoFile = ""
    /\ audioFile = ""
    /\ merged = FALSE
    /\ sigAt = "never"
    /\ steps = <<>>
    /\ failed = "none"

Init ==
    /\ totalDurationSecs \in Totals
    /\ rep \in [StartNumber : StartNumbers, Timescale : Timescales, Duration : Durations]
    /\ urlFault \in UrlFaults
    /\ faulty = TRUE
    /\ InitState
    /\ NoRun
    /\ NoCall

InitEstimate ==
    /\ totalDurationSecs \in EstTotals
    /\ rep \in [StartNumber : EstStartNumbers, Timescale : EstTimescales, Duration : EstDurations]
    /\ urlFault = "none"
    /\ faulty = TRUE
    /\ InitState
    /\ NoRun
    /\ NoCall

(***************************************************************************)
(* The context: cancel() may be called at any time, also before the call.  *)
(***************************************************************************)
Cancel ==
    /\ ~cancelled
    /\ cancelled' = TRUE
    /\ cancelAt' = IF pc \in {"create", "resolve", "fetchInit"} THEN "init"
                   ELSE IF pc = "done" THEN "returned"
                   ELSE IF pc \in {"recv", "flush"} /\ received = totalSegments THEN "drained"
                   ELSE "running"
    /\ UNCHANGED <<inputs, mainVars, chanVars, wk, closer, initDone, written, fetched, fetchFailed, arrival,
                   dispatchVars, fsVars, runVars, callVars>>

(***************************************************************************)
(* DownloadStream, the calling goroutine.                                  *)
(***************************************************************************)
(* A return without the deferred tmpFile.Close().                          *)
ReturnNoClose(path, err) ==
    /\ ret' = [path |-> path, err |-> err]
    /\ tmpOpen' = tmpOpen
    /\ pc' = "done"

(* return "", err with the deferred tmpFile.Close().                       *)
Return(path, err) ==
    /\ ret' = [path |-> path, err |-> err]
    /\ tmpOpen' = FALSE
    /\ pc' = "done"

CreateTemp ==
    /\ pc = "create"
    /\ \/ /\ tmpOpen' = TRUE
          /\ disk' = disk \cup {TmpName}
          /\ created' = created \cup {TmpName}
          /\ pc' = "resolve"
          /\ ret' = ret
       \/ /\ faulty
          /\ ret' = [path |-> "", err |-> MkErr("tempfile", -1, "io")]
          /\ pc' = "done"
          /\ tmpOpen' = tmpOpen
          /\ UNCHANGED fsVars
    /\ UNCHANGED <<inputs, cancelled, sink, totalSegments, i, segMap, nextToWrite,
                   chanVars, wk, closer, ghostVars, dispatchVars, runVars, callVars>>

(* ResolveInit that returns the error of url.Parse as it is, not wrapped   *)
(* in 'failed to resolve init segment url'.                                *)
ResolveInitBare ==
    /\ pc = "resolve"
    /\ IF urlFault \in {"base", "init"}
       THEN Return("", MkErr("address", -1, "address"))
       ELSE /\ pc' = "fetchInit"
            /\ UNCHANGED <<ret, tmpOpen>>
    /\ UNCHANGED <<inputs, cancelled, sink, totalSegments, i, segMap, nextToWrite,
                   chanVars, wk, closer, ghostVars, dispatchVars, fsVars, runVars, callVars>>

(* resolveSegmentUrl for the Initialization template: url.Parse of the     *)
(* base or of the template fails.                                          *)
ResolveInit ==
    /\ pc = "resolve"
    /\ IF urlFault \in {"base", "init"}
       THEN Return("", MkErr("resolve", -1, "address"))
       ELSE /\ pc' = "fetchInit"
            /\ UNCHANGED <<ret, tmpOpen>>
    /\ UNCHANGED <<inputs, cancelled, sink, totalSegments, i, segMap, nextToWrite,
                   chanVars, wk, closer, ghostVars, dispatchVars, fsVars, runVars, callVars>>

(* FetchInit that reports the failure of the init segment but goes on.     *)
FetchInitNoReturn ==
    /\ pc = "fetchInit"
    /\ \/ /\ ~cancelled
          /\ sink' = sink \o InitData
          /\ initDone' = TRUE
          /\ ret' = ret
       \/ /\ \E c \in IF cancelled THEN {"canceled"} ELSE {"status", "transport", "io"} :
                ret' = [path |-> "", err |-> MkErr("init", -1, c)]
          /\ UNCHANGED <<sink, initDone>>
    /\ pc' = "estimate"
    /\ UNCHANGED <<inputs, cancelled, tmpOpen, totalSegments, i, segMap, nextToWrite,
                   chanVars, wk, closer, written, fetched, fetchFailed, arrival, cancelAt,
                   dispatchVars, fsVars, runVars, callVars>>

(* downloadAndAppend(ctx, initUrl, tmpFile): a cancelled context fails the *)
(* request; a non-200 status fails it before anything is copied; a         *)
(* transport or write error may leave part of the body in the file.        *)
FetchInit ==
    /\ pc = "fetchInit"
    /\ \/ /\ ~cancelled
          /\ sink' = sink \o InitData
          /\ initDone' = TRUE
          /\ pc' = "estimate"
          /\ UNCHANGED <<ret, tmpOpen>>
       \/ /\ ~cancelled
          /\ faulty
          /\ sink' = sink
          /\ initDone' = initDone
          /\ Return("", MkErr("init", -1, "status"))
       \/ /\ ~cancelled
          /\ faulty
          /\ \E p \in Prefixes(InitData), c \in {"transport", "io"} :
                /\ sink' = sink \o p
                /\ initDone' = initDone
                /\ Return("", MkErr("init", -1, c))
       \/ /\ cancelled
          /\ \E p \in Prefixes(InitData) :
                /\ sink' = sink \o p
                /\ initDone' = initDone
                /\ Return("", MkErr("init", -1, "canceled"))
    /\ UNCHANGED <<inputs, cancelled, totalSegments, i, segMap, nextToWrite,
                   chanVars, wk, closer, written, fetched, fetchFailed, arrival, cancelAt,
                   dispatchVars, fsVars, runVars, callVars>>

(* totalSegments and the two channels of that capacity: make(chan, n)      *)
(* panics when n is negative or beyond what can be allocated, and nothing  *)
(* recovers the panic.                                                     *)
Estimate ==
    /\ pc = "estimate"
    /\ \E n \in EstimateOutcomes(totalDurationSecs, rep.Duration, rep.Timescale) :
          /\ totalSegments' = n
          /\ pc' = IF n < 0 \/ n >= Huge THEN "panic" ELSE "startWorkers"
    /\ UNCHANGED <<inputs, cancelled, tmpOpen, sink, i, segMap, nextToWrite, ret,
                   chanVars, wk, closer, ghostVars, dispatchVars, fsVars, runVars, callVars>>

(* StartWorkers that starts one goroutine for each segment, at most        *)
(* workerCount.                                                            *)
StartWorkersPerSegment ==
    /\ pc = "startWorkers"
    /\ LET n == IF totalSegments < workerCount THEN totalSegments ELSE workerCount
       IN /\ wk' = IF n = 0 THEN EmptyBag ELSE [w \in {SelectWorker} |-> n]
          /\ wg' = wg + n
    /\ i' = startNum
    /\ pc' = "load"
    /\ UNCHANGED <<inputs, cancelled, tmpOpen, sink, totalSegments, segMap, nextToWrite, ret,
                   jobs, jobsClosed, results, resultsClosed, closer, ghostVars,
                   dispatchVars, fsVars, runVars, callVars>>

(* The loop that starts workerCount goroutines, wg.Add(1) for each.        *)
StartWorkers ==
    /\ pc = "startWorkers"
    /\ wk' = [w \in {SelectWorker} |-> workerCount]
    /\ wg' = wg + workerCount
    /\ i' = startNum
    /\ pc' = "load"
    /\ UNCHANGED <<inputs, cancelled, tmpOpen, sink, totalSegments, segMap, nextToWrite, ret,
                   jobs, jobsClosed, results, resultsClosed, closer, ghostVars,
                   dispatchVars, fsVars, runVars, callVars>>

(* LoadJob that sends every index twice.                                   *)
LoadJobTwice ==
    /\ pc = "load"
    /\ i < endNum
    /\ Len(jobs) < totalSegments
    /\ jobs' = jobs \o <<i, i>>
    /\ enqueued' = enqueued (+) SetToBag({i}) (+) SetToBag({i})
    /\ i' = i + 1
    /\ UNCHANGED <<inputs, cancelled, pc, tmpOpen, sink, totalSegments, segMap, nextToWrite, ret,
                   jobsClosed, results, resultsClosed, wg, wk, closer, ghostVars,
                   taken, fetches, published, fsVars, runVars, callVars>>

(* jobs <- i: a send on a channel of capacity totalSegments.               *)
LoadJob ==
    /\ pc = "load"
    /\ i < endNum
    /\ Len(jobs) < totalSegments
    /\ jobs' = Append(jobs, i)
    /\ enqueued' = enqueued (+) SetToBag({i})
    /\ i' = i + 1
    /\ UNCHANGED <<inputs, cancelled, pc, tmpOpen, sink, totalSegments, segMap, nextToWrite, ret,
                   jobsClosed, results, resultsClosed, wg, wk, closer, ghostVars,
                   taken, fetches, published, fsVars, runVars, callVars>>

(* CloseJobs without close(jobs).                                          *)
CloseJobsForgotten ==
    /\ pc = "load"
    /\ ~(i < endNum)
    /\ segMap' = <<>>
    /\ nextToWrite' = startNum
    /\ closer' = "wait"
    /\ pc' = "recv"
    /\ UNCHANGED <<inputs, cancelled, tmpOpen, sink, totalSegments, i, ret, jobsClosed,
                   jobs, results, resultsClosed, wg, wk, ghostVars, dispatchVars, fsVars, runVars, callVars>>

(* close(jobs), the empty segMap, the cursor, and the goroutine that will  *)
(* close results.                                                          *)
CloseJobs ==
    /\ pc = "load"
    /\ ~(i < endNum)
    /\ jobsClosed' = TRUE
    /\ segMap' = <<>>
    /\ nextToWrite' = startNum
    /\ closer' = "wait"
    /\ pc' = "recv"
    /\ UNCHANGED <<inputs, cancelled, tmpOpen, sink, totalSegments, i, ret,
                   jobs, results, resultsClosed, wg, wk, ghostVars, dispatchVars, fsVars, runVars, callVars>>

(* Collect without the reassembly buffer: every payload is written when it *)
(* arrives.                                                                *)
CollectInArrivalOrder ==
    /\ pc = "recv"
    /\ results # <<>>
    /\ LET res == Head(results)
       IN /\ results' = Tail(results)
          /\ arrival' = Append(arrival, res.index)
          /\ IF res.err # "none"
             THEN /\ Return("", MkErr("segment", res.index, res.err))
                  /\ UNCHANGED <<sink, written, nextToWrite>>
             ELSE /\ sink' = sink \o res.data
                  /\ written' = Append(written, res.index)
                  /\ nextToWrite' = nextToWrite + 1
                  /\ UNCHANGED <<pc, ret, tmpOpen>>
    /\ UNCHANGED <<inputs, cancelled, totalSegments, i, segMap,
                   jobs, jobsClosed, resultsClosed, wg, wk, closer,
                   initDone, fetched, fetchFailed, cancelAt, dispatchVars, fsVars, runVars, callVars>>

(* Collect that skips a failed segment instead of returning: the failed    *)
(* index is stored with no data and the loop goes on.                      *)
CollectSkipFailed ==
    /\ pc = "recv"
    /\ results # <<>>
    /\ LET res == Head(results)
       IN /\ results' = Tail(results)
          /\ arrival' = Append(arrival, res.index)
          /\ segMap' = (res.index :> res.data) @@ segMap
          /\ pc' = "flush"
          /\ UNCHANGED <<ret, tmpOpen>>
    /\ UNCHANGED <<inputs, cancelled, sink, totalSegments, i, nextToWrite,
                   jobs, jobsClosed, resultsClosed, wg, wk, closer,
                   initDone, written, fetched, fetchFailed, cancelAt,
                   dispatchVars, fsVars, runVars, callVars>>

(* Collect that reports the cursor instead of the index of the failed      *)
(* result.                                                                 *)
CollectReportsCursor ==
    /\ pc = "recv"
    /\ results # <<>>
    /\ LET res == Head(results)
       IN /\ results' = Tail(results)
          /\ arrival' = Append(arrival, res.index)
          /\ IF res.err # "none"
             THEN /\ Return("", MkErr("segment", nextToWrite, res.err))
                  /\ segMap' = segMap
             ELSE /\ segMap' = (res.index :> res.data) @@ segMap
                  /\ pc' = "flush"
                  /\ UNCHANGED <<ret, tmpOpen>>
    /\ UNCHANGED <<inputs, cancelled, sink, totalSegments, i, nextToWrite,
                   jobs, jobsClosed, resultsClosed, wg, wk, closer,
                   initDone, written, fetched, fetchFailed, cancelAt,
                   dispatchVars, fsVars, runVars, callVars>>

(* for res := range results: one received result, failed or stored.        *)
Collect ==
    /\ pc = "recv"
    /\ results # <<>>
    /\ LET res == Head(results)
       IN /\ results' = Tail(results)
          /\ arrival' = Append(arrival, res.index)
          /\ IF res.err # "none"
             THEN /\ Return("", MkErr("segment", res.index, res.err))
                  /\ segMap' = segMap
             ELSE /\ segMap' = (res.index :> res.data) @@ segMap
                  /\ pc' = "flush"
                  /\ UNCHANGED <<ret, tmpOpen>>
    /\ UNCHANGED <<inputs, cancelled, sink, totalSegments, i, nextToWrite,
                   jobs, jobsClosed, resultsClosed, wg, wk, closer,
                   initDone, written, fetched, fetchFailed, cancelAt,
                   dispatchVars, fsVars, runVars, callVars>>

(* FlushWrite without the cursor gate: the lowest buffered segment is      *)
(* written whether or not it is the expected one.                          *)
MinBuffered == CHOOSE k \in DOMAIN segMap : \A j \in DOMAIN segMap : k <= j

FlushWriteAny ==
    /\ pc = "flush"
    /\ DOMAIN segMap # {}
    /\ sink' = sink \o segMap[MinBuffered]
    /\ written' = Append(written, MinBuffered)
    /\ segMap' = [k \in DOMAIN segMap \ {MinBuffered} |-> segMap[k]]
    /\ nextToWrite' = MinBuffered + 1
    /\ UNCHANGED <<pc, ret, tmpOpen>>
    /\ UNCHANGED <<inputs, cancelled, totalSegments, i,
                   chanVars, wk, closer, initDone, fetched, fetchFailed, arrival, cancelAt,
                   dispatchVars, fsVars, runVars, callVars>>

(* FlushWrite without delete(segMap, nextToWrite).                         *)
FlushWriteKeep ==
    /\ pc = "flush"
    /\ nextToWrite \in DOMAIN segMap
    /\ sink' = sink \o segMap[nextToWrite]
    /\ written' = Append(written, nextToWrite)
    /\ segMap' = segMap
    /\ nextToWrite' = nextToWrite + 1
    /\ UNCHANGED <<pc, ret, tmpOpen>>
    /\ UNCHANGED <<inputs, cancelled, totalSegments, i,
                   chanVars, wk, closer, initDone, fetched, fetchFailed, arrival, cancelAt,
                   dispatchVars, fsVars, runVars, callVars>>

(* The inner loop: tmpFile.Write of the segment under the cursor, which    *)
(* may fail after part of the data.                                        *)
FlushWrite ==
    /\ pc = "flush"
    /\ nextToWrite \in DOMAIN segMap
    /\ \/ /\ sink' = sink \o segMap[nextToWrite]
          /\ written' = Append(written, nextToWrite)
          /\ segMap' = [k \in DOMAIN segMap \ {nextToWrite} |-> segMap[k]]
          /\ nextToWrite' = nextToWrite + 1
          /\ UNCHANGED <<pc, ret, tmpOpen>>
       \/ /\ faulty
          /\ \E p \in Prefixes(segMap[nextToWrite]) : sink' = sink \o p
          /\ Return("", MkErr("write", nextToWrite, "io"))
          /\ UNCHANGED <<written, segMap, nextToWrite>>
    /\ UNCHANGED <<inputs, cancelled, totalSegments, i,
                   chanVars, wk, closer, initDone, fetched, fetchFailed, arrival, cancelAt,
                   dispatchVars, fsVars, runVars, callVars>>

(* A write loop that may stop although the expected segment is buffered.   *)
FlushDoneAnytime ==
    /\ pc = "flush"
    /\ pc' = "recv"
    /\ UNCHANGED <<inputs, cancelled, tmpOpen, sink, totalSegments, i, segMap, nextToWrite, ret,
                   chanVars, wk, closer, ghostVars, dispatchVars, fsVars, runVars, callVars>>

(* The write loop ends: segMap has no entry for nextToWrite.               *)
FlushDone ==
    /\ pc = "flush"
    /\ nextToWrite \notin DOMAIN segMap
    /\ pc' = "recv"
    /\ UNCHANGED <<inputs, cancelled, tmpOpen, sink, totalSegments, i, segMap, nextToWrite, ret,
                   chanVars, wk, closer, ghostVars, dispatchVars, fsVars, runVars, callVars>>

(* The range loop ends on the closed, drained channel.                     *)
Complete ==
    /\ pc = "recv"
    /\ results = <<>>
    /\ resultsClosed
    /\ Return(TmpName, Nil)
    /\ UNCHANGED <<inputs, cancelled, sink, totalSegments, i, segMap, nextToWrite,
                   chanVars, wk, closer, ghostVars, dispatchVars, fsVars, runVars, callVars>>

(***************************************************************************)
(* A worker goroutine.                                                     *)
(***************************************************************************)
Running == BagToSet(wk)

Move(w, t) == (wk (-) SetToBag({w})) (+) SetToBag({t})

(* A worker that returns without wg.Done().                                *)
WorkerExitNoDone(w) ==
    /\ wk' = Move(w, ExitedWorker)
    /\ wg' = wg

(* return, with the deferred wg.Done().                                    *)
WorkerExit(w) ==
    /\ wk' = Move(w, ExitedWorker)
    /\ wg' = wg - 1

(* Outer select, case segNum, ok := <-jobs with ok.                        *)
TakeJob(w) ==
    /\ w.pc = "select"
    /\ jobs # <<>>
    /\ wk' = Move(w, [pc |-> "fetch", segNum |-> Head(jobs), res |-> NoResult])
    /\ jobs' = Tail(jobs)
    /\ taken' = taken (+) SetToBag({Head(jobs)})
    /\ UNCHANGED <<inputs, cancelled, mainVars, jobsClosed, results, resultsClosed, wg,
                   closer, ghostVars, enqueued, fetches, published, fsVars, runVars, callVars>>

(* Outer select, case <-jobs with !ok.                                     *)
JobsDrained(w) ==
    /\ w.pc = "select"
    /\ jobs = <<>>
    /\ jobsClosed
    /\ WorkerExit(w)
    /\ UNCHANGED <<inputs, cancelled, mainVars, jobs, jobsClosed, results, resultsClosed,
                   closer, ghostVars, dispatchVars, fsVars, runVars, callVars>>

(* Outer select, case <-ctx.Done().                                        *)
SelectCancelled(w) ==
    /\ w.pc = "select"
    /\ cancelled
    /\ WorkerExit(w)
    /\ UNCHANGED <<inputs, mainVars, cancelled, jobs, jobsClosed, results, resultsClosed,
                   closer, ghostVars, dispatchVars, fsVars, runVars, callVars>>

(* downloadSegment(ctx, baseUrl, rep, segNum): the Media URL does not      *)
(* parse, the context is cancelled, or the server answers.                 *)
FetchOutcomes ==
    IF urlFault = "media" THEN {"address"}
    ELSE IF cancelled THEN {"canceled"}
    ELSE IF faulty THEN {"none", "status", "transport"}
    ELSE {"none"}

Fetch(w) ==
    /\ w.pc = "fetch"
    /\ \E e \in FetchOutcomes :
          /\ wk' = Move(w, [pc |-> "publish", segNum |-> w.segNum,
                            res |-> [index |-> w.segNum,
                                     data |-> IF e = "none" THEN Payload(w.segNum) ELSE <<>>,
                                     err |-> e]])
          /\ fetchFailed' = IF e = "none" THEN fetchFailed ELSE fetchFailed \cup {w.segNum}
    /\ fetched' = fetched \cup {w.segNum}
    /\ fetches' = fetches (+) SetToBag({w.segNum})
    /\ UNCHANGED <<inputs, cancelled, mainVars, chanVars, closer, initDone, written, arrival,
                   cancelAt, enqueued, taken, published, fsVars, runVars, callVars>>

(* A results channel with room for one result less.                        *)
CapacityOneShort == totalSegments - 1

(* results := make(chan segmentResult, totalSegments)                      *)
Capacity == totalSegments

(* A worker that appends the segment to the file itself.                   *)
PublishAndWrite(w) ==
    /\ w.pc = "publish"
    /\ ~resultsClosed
    /\ Len(results) < Capacity
    /\ results' = Append(results, w.res)
    /\ published' = published (+) SetToBag({w.res.index})
    /\ wk' = Move(w, SelectWorker)
    /\ sink' = sink \o w.res.data
    /\ UNCHANGED <<inputs, cancelled, pc, tmpOpen, totalSegments, i, segMap, nextToWrite, ret,
                   jobs, jobsClosed, resultsClosed, wg,
                   closer, ghostVars, enqueued, taken, fetches, fsVars, runVars, callVars>>

(* Inner select, case results <- segmentResult{...}.                       *)
Publish(w) ==
    /\ w.pc = "publish"
    /\ ~resultsClosed
    /\ Len(results) < Capacity
    /\ results' = Append(results, w.res)
    /\ published' = published (+) SetToBag({w.res.index})
    /\ wk' = Move(w, SelectWorker)
    /\ UNCHANGED <<inputs, cancelled, mainVars, jobs, jobsClosed, resultsClosed, wg,
                   closer, ghostVars, enqueued, taken, fetches, fsVars, runVars, callVars>>

(* Inner select, case <-ctx.Done().                                        *)
PublishCancelled(w) ==
    /\ w.pc = "publish"
    /\ cancelled
    /\ WorkerExit(w)
    /\ UNCHANGED <<inputs, cancelled, mainVars, jobs, jobsClosed, results, resultsClosed,
                   closer, ghostVars, dispatchVars, fsVars, runVars, callVars>>

(***************************************************************************)
(* The goroutine of wg.Wait(); close(results).                             *)
(***************************************************************************)
(* A closer that closes results without wg.Wait().                         *)
CloseResultsNoWait ==
    /\ closer = "wait"
    /\ resultsClosed' = TRUE
    /\ closer' = "done"
    /\ UNCHANGED <<inputs, cancelled, mainVars, jobs, jobsClosed, results, wg, wk, ghostVars,
                   dispatchVars, fsVars, runVars, callVars>>

CloseResults ==
    /\ closer = "wait"
    /\ wg = 0
    /\ resultsClosed' = TRUE
    /\ closer' = "done"
    /\ UNCHANGED <<inputs, cancelled, mainVars, jobs, jobsClosed, results, wg, wk, ghostVars,
                   dispatchVars, fsVars, runVars, callVars>>

Next ==
    \/ Cancel
    \/ CreateTemp
    \/ ResolveInit
    \/ FetchInit
    \/ Estimate
    \/ StartWorkers
    \/ LoadJob
    \/ CloseJobs
    \/ Collect
    \/ FlushWrite
    \/ FlushDone
    \/ Complete
    \/ \E w \in Running : TakeJob(w)
    \/ \E w \in Running : JobsDrained(w)
    \/ \E w \in Running : SelectCancelled(w)
    \/ \E w \in Running : Fetch(w)
    \/ \E w \in Running : Publish(w)
    \/ \E w \in Running : PublishCancelled(w)
    \/ CloseResults

Spec == Init /\ [][Next]_vars

(* A stream of workerCount + 1 segments and a stream of none.              *)
InitPool ==
    /\ totalDurationSecs \in {0, workerCount}
    /\ rep = [StartNumber |-> 1, Timescale |-> 1, Duration |-> 1]
    /\ urlFault = "none"
    /\ faulty = FALSE
    /\ InitState
    /\ NoRun
    /\ NoCall

(* The run to its end when nobody cancels the context.                     *)
NextPool ==
    \/ CreateTemp
    \/ ResolveInit
    \/ FetchInit
    \/ Estimate
    \/ StartWorkers
    \/ LoadJob
    \/ CloseJobs
    \/ Collect
    \/ FlushWrite
    \/ FlushDone
    \/ Complete
    \/ \E w \in Running : TakeJob(w)
    \/ \E w \in Running : JobsDrained(w)
    \/ \E w \in Running : Fetch(w)
    \/ \E w \in Running : Publish(w)
    \/ CloseResults

SpecPool == InitPool /\ [][NextPool]_vars

(* A stream of two segments under the Go scheduler: a goroutine that can   *)
(* take a step is not left waiting forever.  Every run is finite, so weak  *)
(* fairness of the steps of the program as a whole says just that.  The    *)
(* step Estimate is enabled exactly when pc = "estimate" and is the only   *)
(* step that leaves it, so its fairness is written []<>(pc # "estimate").  *)
InitCancel ==
    /\ totalDurationSecs = 1
    /\ rep = [StartNumber |-> 1, Timescale |-> 1, Duration |-> 1]
    /\ urlFault = "none"
    /\ faulty = TRUE
    /\ InitState
    /\ NoRun
    /\ NoCall

Progress ==
    \/ CreateTemp
    \/ ResolveInit
    \/ FetchInit
    \/ StartWorkers
    \/ LoadJob
    \/ CloseJobs
    \/ Collect
    \/ FlushWrite
    \/ FlushDone
    \/ Complete
    \/ \E w \in Running : TakeJob(w)
    \/ \E w \in Running : JobsDrained(w)
    \/ \E w \in Running : SelectCancelled(w)
    \/ \E w \in Running : Fetch(w)
    \/ \E w \in Running : Publish(w)
    \/ \E w \in Running : PublishCancelled(w)
    \/ CloseResults

SpecCancel ==
    InitCancel /\ [][Next]_vars /\ WF_vars(Progress) /\ []<>(pc # "estimate")

(* Streams of no segment, of fewer segments than workers and of more, with *)
(* nothing failing and nobody cancelling, under the same scheduler.        *)
InitLive ==
    /\ totalDurationSecs \in Totals \cup {workerCount}
    /\ rep = [StartNumber |-> 1, Timescale |-> 1, Duration |-> 1]
    /\ urlFault = "none"
    /\ faulty = FALSE
    /\ InitState
    /\ NoRun
    /\ NoCall

SpecLive ==
    InitLive /\ [][NextPool]_vars /\ WF_vars(Progress) /\ []<>(pc # "estimate")

(* The calling goroutine alone, up to close(jobs).                         *)
NextEstimate ==
    \/ CreateTemp
    \/ ResolveInit
    \/ FetchInit
    \/ Estimate
    \/ StartWorkers
    \/ LoadJob
    \/ CloseJobs

SpecEstimate == InitEstimate /\ [][NextEstimate]_vars

(* Templates as the manifest decoder gives them: an attribute that is      *)
(* absent from the SegmentTemplate element, or written 0, is the int 0.    *)
DecodedTimescales == {0, 1}

DecodedDurations == {0, 1}

InitDecoded ==
    /\ totalDurationSecs \in Totals
    /\ rep \in [StartNumber : StartNumbers, Timescale : DecodedTimescales,
                 Duration : DecodedDurations]
    /\ urlFault \in UrlFaults
    /\ faulty = TRUE
    /\ InitState
    /\ NoRun
    /\ NoCall

SpecDecoded == InitDecoded /\ [][NextEstimate]_vars

(***************************************************************************)
(* main.run: the command line, the two calls of DownloadStream, the merge. *)
(***************************************************************************)
Say(m) == stdout' = Append(stdout, m)

Printed(m) == \E n \in 1..Len(stdout) : stdout[n] = m

(* cleanup(f): os.Remove unless f is the empty string.                     *)
Cleanup(d, f) == IF f # "" THEN d \ {f} ELSE d

(* return code, before the context exists.                                 *)
Exit(code) ==
    /\ rpc' = "exit"
    /\ exitCode' = code
    /\ UNCHANGED <<cancelled, cancelAt>>

(* return code with the deferred cancel().                                 *)
ExitCancel(code) ==
    /\ rpc' = "exit"
    /\ exitCode' = code
    /\ cancelled' = TRUE
    /\ cancelAt' = IF cancelled THEN cancelAt ELSE "returned"

(* The call DownloadStream(ctx, manifestUrl, rep, totalDuration): a fresh  *)
(* invocation, with the context of run.                                    *)
CallDownloadStream ==
    /\ pc' = "create"
    /\ tmpOpen' = FALSE
    /\ sink' = <<>>
    /\ totalSegments' = 0
    /\ i' = 0
    /\ segMap' = <<>>
    /\ nextToWrite' = 0
    /\ ret' = [path |-> "", err |-> Nil]
    /\ jobs' = <<>>
    /\ jobsClosed' = FALSE
    /\ results' = <<>>
    /\ resultsClosed' = FALSE
    /\ wg' = 0
    /\ wk' = EmptyBag
    /\ closer' = "none"
    /\ initDone' = FALSE
    /\ written' = <<>>
    /\ fetched' = {}
    /\ fetchFailed' = {}
    /\ arrival' = <<>>
    /\ enqueued' = EmptyBag
    /\ taken' = EmptyBag
    /\ fetches' = EmptyBag
    /\ published' = EmptyBag

(* DownloadStream is not running: nothing of it changes.                   *)
NoDownload ==
    UNCHANGED <<pc, tmpOpen, sink, totalSegments, i, segMap, nextToWrite, ret,
                chanVars, wk, closer, initDone, written, fetched, fetchFailed, arrival,
                dispatchVars>>

InitRun ==
    /\ totalDurationSecs = 1
    /\ rep = [StartNumber |-> 1, Timescale |-> 1, Duration |-> 1]
    /\ urlFault \in UrlFaults
    /\ faulty = TRUE
    /\ checkDeps \in BOOLEAN
    /\ urlGiven \in BOOLEAN
    /\ ffmpeg \in BOOLEAN
    /\ cancelled = FALSE
    /\ pc = "idle"
    /\ tmpOpen = FALSE
    /\ sink = <<>>
    /\ totalSegments = 0
    /\ i = 0
    /\ segMap = <<>>
    /\ nextToWrite = 0
    /\ ret = [path |-> "", err |-> Nil]
    /\ jobs = <<>>
    /\ jobsClosed = FALSE
    /\ results = <<>>
    /\ resultsClosed = FALSE
    /\ wg = 0
    /\ wk = EmptyBag
    /\ closer = "none"
    /\ initDone = FALSE
    /\ written = <<>>
    /\ fetched = {}
    /\ fetchFailed = {}
    /\ arrival = <<>>
    /\ cancelAt = "never"
    /\ enqueued = EmptyBag
    /\ taken = EmptyBag
    /\ fetches = EmptyBag
    /\ published = EmptyBag
    /\ disk = {}
    /\ created = {}
    /\ rpc = "start"
    /\ stdout = <<>>
    /\ exitCode = -1
    /\ videoFile = ""
    /\ audioFile = ""
    /\ merged = FALSE
    /\ sigAt = "never"
    /\ steps = <<>>
    /\ failed = "none"
    /\ NoCall

(* The steps run has begun, in order, and the step that returned an error. *)
Did(names, f) ==
    /\ steps' = steps \o names
    /\ failed' = f

(* RunCheck that requires --url before it looks at --check-dependencies.  *)
RunCheckUrlFirst ==
    /\ rpc = "start"
    /\ IF ~urlGiven
       THEN Say("Error: --url is required") /\ Exit(1) /\ Did(<<>>, "url")
       ELSE IF checkDeps
            THEN IF ~ffmpeg
                 THEN Say("Dependency Check: FAIL") /\ Exit(1) /\ Did(<<"deps">>, "deps")
                 ELSE Say("Dependency Check: PASS") /\ Exit(0) /\ Did(<<"deps">>, "none")
            ELSE IF ~ffmpeg
                 THEN /\ Say("Error: ffmpeg is not installed or not in PATH")
                      /\ Exit(1)
                      /\ Did(<<"deps">>, "deps")
                 ELSE /\ rpc' = "manifest"
                      /\ Did(<<"deps">>, "none")
                      /\ UNCHANGED <<stdout, exitCode, cancelled, cancelAt>>
    /\ NoDownload
    /\ UNCHANGED <<inputs, fsVars, runInputs, callVars, videoFile, audioFile, merged, sigAt>>

(* RunCheck that calls checkRequirements before it requires --url.         *)
RunCheckDepsFirst ==
    /\ rpc = "start"
    /\ IF checkDeps
       THEN IF ~ffmpeg
            THEN Say("Dependency Check: FAIL") /\ Exit(1) /\ Did(<<"deps">>, "deps")
            ELSE Say("Dependency Check: PASS") /\ Exit(0) /\ Did(<<"deps">>, "none")
       ELSE IF ~ffmpeg
            THEN /\ Say("Error: ffmpeg is not installed or not in PATH")
                 /\ Exit(1)
                 /\ Did(<<"deps">>, "deps")
            ELSE IF ~urlGiven
                 THEN Say("Error: --url is required") /\ Exit(1) /\ Did(<<"deps">>, "url")
                 ELSE /\ rpc' = "manifest"
                      /\ Did(<<"deps">>, "none")
                      /\ UNCHANGED <<stdout, exitCode, cancelled, cancelAt>>
    /\ NoDownload
    /\ UNCHANGED <<inputs, fsVars, runInputs, callVars, videoFile, audioFile, merged, sigAt>>

(* --check-dependencies, the required --url, checkRequirements.            *)
RunCheck ==
    /\ rpc = "start"
    /\ IF checkDeps
       THEN IF ~ffmpeg
            THEN Say("Dependency Check: FAIL") /\ Exit(1) /\ Did(<<"deps">>, "deps")
            ELSE Say("Dependency Check: PASS") /\ Exit(0) /\ Did(<<"deps">>, "none")
       ELSE IF ~urlGiven
            THEN Say("Error: --url is required") /\ Exit(1) /\ Did(<<>>, "url")
            ELSE IF ~ffmpeg
                 THEN /\ Say("Error: ffmpeg is not installed or not in PATH")
                      /\ Exit(1)
                      /\ Did(<<"deps">>, "deps")
                 ELSE /\ rpc' = "manifest"
                      /\ Did(<<"deps">>, "none")
                      /\ UNCHANGED <<stdout, exitCode, cancelled, cancelAt>>
    /\ NoDownload
    /\ UNCHANGED <<inputs, fsVars, runInputs, callVars, videoFile, audioFile, merged, sigAt>>

(* model.ParseManifest and os.MkdirAll.                                    *)
RunManifest ==
    /\ rpc = "manifest"
    /\ \/ /\ stdout' = stdout \o <<"Fetching manifest", "Error parsing manifest">>
          /\ Exit(1)
          /\ Did(<<"manifest">>, "manifest")
       \/ /\ stdout' = stdout \o <<"Fetching manifest", "Error creating output directory">>
          /\ Exit(1)
          /\ Did(<<"manifest", "mkdir">>, "mkdir")
       \/ /\ Say("Fetching manifest")
          /\ rpc' = "setup"
          /\ Did(<<"manifest", "mkdir">>, "none")
          /\ UNCHANGED <<exitCode, cancelled, cancelAt>>
    /\ NoDownload
    /\ UNCHANGED <<inputs, fsVars, runInputs, callVars, videoFile, audioFile, merged, sigAt>>

(* context.WithCancel, signal.Notify and the goroutine that waits for the  *)
(* signal; then the selection of the two representations and the call for  *)
(* the video stream.                                                       *)
RunSelect ==
    /\ rpc = "setup"
    /\ \/ /\ Say("Error selecting video stream")
          /\ ExitCancel(1)
          /\ Did(<<"selectVideo">>, "selectVideo")
          /\ NoDownload
       \/ /\ stdout' = stdout \o <<"Selected video stream", "Error selecting audio stream">>
          /\ ExitCancel(1)
          /\ Did(<<"selectVideo", "selectAudio">>, "selectAudio")
          /\ NoDownload
       \/ /\ Say("Selected video stream")
          /\ rpc' = "video"
          /\ Did(<<"selectVideo", "selectAudio", "video">>, "none")
          /\ CallDownloadStream
          /\ UNCHANGED <<exitCode, cancelled, cancelAt>>
    /\ UNCHANGED <<inputs, fsVars, runInputs, callVars, videoFile, audioFile, merged, sigAt>>

(* SIGINT or SIGTERM once signal.Notify is in place: the goroutine prints  *)
(* and calls cancel().  sigAt records whether a download was in progress.  *)
Signal ==
    /\ rpc \in {"setup", "video", "audio", "merge"}
    /\ sigAt = "never"
    /\ Say("Received interrupt signal, stopping...")
    /\ sigAt' = IF rpc \in {"video", "audio"} /\ pc # "done" THEN rpc ELSE "idle"
    /\ cancelled' = TRUE
    /\ cancelAt' = IF cancelled THEN cancelAt
                   ELSE IF pc \in {"create", "resolve", "fetchInit"} THEN "init"
                   ELSE IF pc \in {"done", "idle"} THEN "returned"
                   ELSE IF pc \in {"recv", "flush"} /\ received = totalSegments THEN "drained"
                   ELSE "running"
    /\ NoDownload
    /\ UNCHANGED <<inputs, fsVars, runInputs, callVars, rpc, exitCode, videoFile, audioFile, merged,
                   steps, failed>>

(* AudioReturn that has no case for context.Canceled.                      *)
AudioReturnNoCancelCase ==
    /\ rpc = "audio"
    /\ pc = "done"
    /\ IF ret.err # Nil
       THEN /\ Say("Error downloading audio")
            /\ disk' = Cleanup(Cleanup(disk, ret.path), videoFile)
            /\ ExitCancel(1)
            /\ Did(<<>>, "audio")
            /\ audioFile' = ret.path
       ELSE /\ audioFile' = ret.path
            /\ rpc' = "merge"
            /\ UNCHANGED <<stdout, exitCode, cancelled, cancelAt, disk, steps, failed>>
    /\ NoDownload
    /\ UNCHANGED <<inputs, created, runInputs, callVars, videoFile, merged, sigAt>>

(* VideoReturn that reports the error of the video download and goes on to *)
(* the audio download.                                                     *)
VideoReturnGoesOn ==
    /\ rpc = "video"
    /\ pc = "done"
    /\ IF ret.err # Nil
       THEN /\ Say("Error downloading video")
            /\ Did(<<"audio">>, "video")
       ELSE /\ Did(<<"audio">>, "none")
            /\ UNCHANGED stdout
    /\ videoFile' = ret.path
    /\ rpc' = "audio"
    /\ CallDownloadStream
    /\ UNCHANGED <<exitCode, cancelled, cancelAt, disk>>
    /\ UNCHANGED <<inputs, created, runInputs, callVars, audioFile, merged, sigAt>>

(* videoFile, err := DownloadStream(...) has returned: the error branch,   *)
(* or defer cleanup(videoFile) and the call for the audio stream.          *)
VideoReturn ==
    /\ rpc = "video"
    /\ pc = "done"
    /\ IF ret.err # Nil
       THEN /\ IF ret.err = Canceled
               THEN Say("Download cancelled.") /\ ExitCancel(0)
               ELSE Say("Error downloading video") /\ ExitCancel(1)
            /\ disk' = Cleanup(disk, ret.path)
            /\ videoFile' = ret.path
            /\ Did(<<>>, "video")
            /\ NoDownload
       ELSE /\ videoFile' = ret.path
            /\ rpc' = "audio"
            /\ Did(<<"audio">>, "none")
            /\ CallDownloadStream
            /\ UNCHANGED <<stdout, exitCode, cancelled, cancelAt, disk>>
    /\ UNCHANGED <<inputs, created, runInputs, callVars, audioFile, merged, sigAt>>

(* audioFile, err := DownloadStream(...) has returned: the error branch    *)
(* with cleanup(audioFile) and the deferred cleanup(videoFile), or         *)
(* defer cleanup(audioFile).                                               *)
AudioReturn ==
    /\ rpc = "audio"
    /\ pc = "done"
    /\ IF ret.err # Nil
       THEN /\ IF ret.err = Canceled
               THEN Say("Download cancelled.") /\ ExitCancel(0)
               ELSE Say("Error downloading audio") /\ ExitCancel(1)
            /\ disk' = Cleanup(Cleanup(disk, ret.path), videoFile)
            /\ audioFile' = ret.path
            /\ Did(<<>>, "audio")
       ELSE /\ audioFile' = ret.path
            /\ rpc' = "merge"
            /\ UNCHANGED <<stdout, exitCode, cancelled, cancelAt, disk, steps, failed>>
    /\ NoDownload
    /\ UNCHANGED <<inputs, created, runInputs, callVars, videoFile, merged, sigAt>>

(* merger.MergeAudioVideo(videoFile, audioFile, outputPath) and the two    *)
(* deferred cleanups.                                                      *)
Merge ==
    /\ rpc = "merge"
    /\ merged' = TRUE
    /\ \/ Say("Error combining video and audio") /\ ExitCancel(1) /\ Did(<<"merge">>, "merge")
       \/ Say("Successfully created") /\ ExitCancel(0) /\ Did(<<"merge">>, "none")
    /\ disk' = Cleanup(Cleanup(disk, audioFile), videoFile)
    /\ NoDownload
    /\ UNCHANGED <<inputs, created, runInputs, callVars, videoFile, audioFile, sigAt>>

(* downloadStreamFunc as the tests of run replace it: it returns at once,  *)
(* a mock error, a path, or context.Canceled, and creates no file.         *)
StubResults ==
    { [path |-> "", err |-> MkErr("mock", -1, "mock")],
      [path |-> "temp.mp4", err |-> Nil],
      [path |-> "", err |-> Canceled] }

DownloadStub ==
    /\ rpc \in {"video", "audio"}
    /\ pc = "create"
    /\ ret' \in StubResults
    /\ pc' = "done"
    /\ UNCHANGED <<inputs, cancelled, tmpOpen, sink, totalSegments, i, segMap, nextToWrite,
                   chanVars, wk, closer, ghostVars, dispatchVars, fsVars, runVars, callVars>>

(* run with the real DownloadStream.                                       *)
NextRun ==
    \/ RunCheck
    \/ RunManifest
    \/ RunSelect
    \/ Signal
    \/ VideoReturn
    \/ AudioReturn
    \/ Merge
    \/ CreateTemp
    \/ ResolveInit
    \/ FetchInit
    \/ Estimate
    \/ StartWorkers
    \/ LoadJob
    \/ CloseJobs
    \/ Collect
    \/ FlushWrite
    \/ FlushDone
    \/ Complete
    \/ \E w \in Running : TakeJob(w)
    \/ \E w \in Running : JobsDrained(w)
    \/ \E w \in Running : SelectCancelled(w)
    \/ \E w \in Running : Fetch(w)
    \/ \E w \in Running : Publish(w)
    \/ \E w \in Running : PublishCancelled(w)
    \/ CloseResults

SpecRun == InitRun /\ [][NextRun]_vars

(* run as its tests drive it, with the download replaced.                  *)
NextRunStub ==
    \/ RunCheck
    \/ RunManifest
    \/ RunSelect
    \/ Signal
    \/ DownloadStub
    \/ VideoReturn
    \/ AudioReturn
    \/ Merge

SpecRunStub == InitRun /\ [][NextRunStub]_vars

(***************************************************************************)
(* Vocabulary of the properties.                                           *)
(***************************************************************************)
RECURSIVE ConcatPayloads(_, _)
ConcatPayloads(from, n) ==
    IF n <= 0 THEN <<>> ELSE Payload(from) \o ConcatPayloads(from + 1, n - 1)

IndexRun(from, n) == [k \in 1..n |-> from + k - 1]

IsPrefix(p, s) == Len(p) <= Len(s) /\ SubSeq(s, 1, Len(p)) = p

Returned == pc = "done"

Succeeded == Returned /\ ret.err = Nil

ExpectedBlob == InitData \o ConcatPayloads(startNum, totalSegments)

(***************************************************************************)
(* C1, as stated: in a run that is not cancelled and in which the init     *)
(* fetch and every media fetch succeed, DownloadStream returns success and *)
(* the sink is init ++ payload(startNumber) ++ ... in index order,         *)
(* whatever the order of arrival.  Refuted: a failed write of a fetched    *)
(* segment ends such a run with an error.                                  *)
(***************************************************************************)
C1_OrderInvariantAsStated ==
    (Returned /\ ~cancelled /\ initDone /\ fetchFailed = {})
        => (ret.err = Nil /\ ret.path = TmpName /\ sink = ExpectedBlob)

(* C1, amended: in a run that is not cancelled, in which the init fetch    *)
(* and every media fetch succeed and no write to the sink fails,           *)
(* DownloadStream returns success and the sink is exactly                  *)
(* init ++ payload(startNumber) ++ ... ++ payload(startNumber+count-1).    *)
C1_OrderInvariant ==
    (Returned /\ ~cancelled /\ initDone /\ fetchFailed = {} /\ ret.err.kind # "write")
        => (ret.err = Nil /\ ret.path = TmpName /\ sink = ExpectedBlob)

(* A successful run of three segments whose results arrived in reverse.    *)
C1_Witness ==
    /\ Succeeded
    /\ ~cancelled
    /\ totalSegments = 3
    /\ arrival = <<startNum + 2, startNum + 1, startNum>>
    /\ sink = ExpectedBlob

(***************************************************************************)
(* C2: in every reachable state the media segments appended to the sink    *)
(* are startNumber, startNumber+1, ..., nextToWrite-1 in that order, each  *)
(* once, and their bytes follow the init segment.                          *)
(***************************************************************************)
C2_OrderedSink ==
    /\ written = IndexRun(startNum, Len(written))
    /\ jobsClosed => nextToWrite = startNum + Len(written)
    /\ written # <<>> =>
          IsPrefix(InitData \o ConcatPayloads(startNum, Len(written)), sink)
    /\ IsPrefix(sink, InitData \o ConcatPayloads(startNum, Len(written) + 1))

(* Two segments are in the sink although the second one arrived first.     *)
C2_Witness ==
    /\ Len(written) >= 2
    /\ Len(arrival) >= 2
    /\ arrival[1] = startNum + 1
    /\ arrival[2] = startNum

(***************************************************************************)
(* C3, as stated: whenever DownloadStream returns success, the cursor is   *)
(* startNumber + segmentCount, the buffer is empty and every dispatched    *)
(* segment is in the sink, also when the context is cancelled while the    *)
(* workers are fetching.  The code breaks it: after a cancellation the     *)
(* workers exit without publishing, results is closed, the range loop ends *)
(* and the partial file is returned with a nil error.                      *)
(***************************************************************************)
C3_NoPartialSuccess ==
    Succeeded =>
        /\ nextToWrite = endNum
        /\ segMap = <<>>
        /\ written = IndexRun(startNum, totalSegments)

(***************************************************************************)
(* C4, as stated: a context cancelled before the collector has received    *)
(* the last dispatched result makes DownloadStream return a failure, never *)
(* success.  The code returns the partial file with a nil error when the   *)
(* workers leave on ctx.Done() (see C3).                                   *)
(***************************************************************************)
CancelledBeforeLastResult ==
    \/ cancelAt = "init"
    \/ cancelAt = "running" /\ totalSegments > 0

C4_CancelNeverSucceeds ==
    (Returned /\ CancelledBeforeLastResult) => ret.err # Nil

(***************************************************************************)
(* C5, as stated: a run that ends because the context was cancelled        *)
(* returns context.Canceled itself, the value the caller compares with ==, *)
(* not an init-segment or media-segment fetch error.                       *)
(***************************************************************************)
C5_CancelDistinguished ==
    (Returned /\ ret.err.cause = "canceled") => ret.err = Canceled

(***************************************************************************)
(* C6: once the fetch of segment k has failed, the sink holds no byte of a *)
(* segment with index >= k, in any state of the run; segments above k that *)
(* arrived earlier stay in the buffer and are not written.                 *)
(***************************************************************************)
C6_FailFast ==
    /\ \A k \in fetchFailed :
          /\ IsPrefix(sink, InitData \o ConcatPayloads(startNum, k - startNum))
          /\ \A n \in 1..Len(written) : written[n] < k
    /\ (Returned /\ ret.err.kind = "segment") =>
          \A j \in DOMAIN segMap : \A n \in 1..Len(written) : written[n] # j

(* Segment startNumber+1 failed after startNumber+2 had arrived: the first *)
(* segment is in the sink, the third is still buffered.                    *)
C6_Witness ==
    /\ Returned
    /\ ret.err.kind = "segment"
    /\ ret.err.index = startNum + 1
    /\ written = <<startNum>>
    /\ startNum + 2 \in DOMAIN segMap

C8_InitFailureStops ==
    ret.err.kind \in {"resolve", "init"}
        => /\ Returned
           /\ ret.path = ""
           /\ wk = EmptyBag
           /\ wg = 0
           /\ jobs = <<>>
           /\ ~jobsClosed
           /\ fetched = {}

(* The init fetch was answered with a non-200 status in a stream that has  *)
(* segments to fetch.                                                      *)
C8_Witness ==
    /\ ret.err = MkErr("init", -1, "status")
    /\ totalDurationSecs > 0
    /\ Returned

(***************************************************************************)
(* C9, as stated: a context cancelled before the init fetch completes      *)
(* makes DownloadStream return the cancellation error and no path.  The    *)
(* code returns 'failed to download init segment' wrapping the             *)
(* cancellation (see C5).                                                  *)
(***************************************************************************)
C9_CancelBeforeInit ==
    (Returned /\ cancelAt = "init" /\ ret.err.kind \notin {"tempfile", "resolve"})
        => (ret.err = Canceled /\ ret.path = "")

(***************************************************************************)
(* C10, as stated: segmentCount is floor(total / (duration/timescale)) + 1 *)
(* for total > 0 and 0 for total = 0, and the indices enqueued are exactly *)
(* startNumber .. startNumber + segmentCount - 1.  Refuted: the quotient   *)
(* is computed in float64, and where it is a whole number N the rounding   *)
(* of duration/timescale can leave it just below N, so that the count is N *)
(* and not N + 1 (total 9, duration 9, timescale 7 gives 7).               *)
(***************************************************************************)
Estimated == initDone /\ pc # "estimate"

ExactFloor == (totalDurationSecs * rep.Timescale) \div rep.Duration

Indices == startNum..(endNum - 1)

AtMostOnce(b) == \A k \in BagToSet(b) : CopiesIn(k, b) = 1

Holders(k) == {w \in Running : w.segNum = k}

C11_ExactlyOnce ==
    /\ AtMostOnce(enqueued) /\ BagToSet(enqueued) \subseteq Indices
    /\ jobsClosed => BagToSet(enqueued) = Indices
    /\ AtMostOnce(taken) /\ BagToSet(taken) \subseteq BagToSet(enqueued)
    /\ AtMostOnce(fetches) /\ BagToSet(fetches) \subseteq BagToSet(taken)
    /\ AtMostOnce(published) /\ BagToSet(published) \subseteq BagToSet(fetches)
    /\ \A k \in Indices :
          /\ Cardinality(Holders(k)) <= 1
          /\ \A w \in Holders(k) : CopiesIn(w, wk) = 1
    /\ \A m, n \in 1..Len(arrival) : arrival[m] = arrival[n] => m = n
    /\ \A n \in 1..Len(arrival) : arrival[n] \in BagToSet(published)
    /\ (resultsClosed /\ ~cancelled) => BagToSet(published) = Indices

(* Three segments, one of them failed and was not fetched again: when      *)
(* results is closed every index has its one result.                       *)
C11_Witness ==
    /\ resultsClosed
    /\ ~cancelled
    /\ totalSegments = 3
    /\ fetchFailed # {}
    /\ BagToSet(published) = Indices
    /\ BagCardinality(fetches) = 3

(***************************************************************************)
(* C12, as stated: in every reachable state segMap holds at most           *)
(* pool size - 1 = 4 segments that are not yet written, whatever the       *)
(* segment count and the order in which the fetches complete.              *)
(***************************************************************************)
C12_BufferBoundAsStated == Cardinality(DOMAIN segMap) <= workerCount - 1

(* C12, amended: segMap holds only segments from the cursor up to the last *)
(* dispatched index, so at most startNumber + segmentCount - nextToWrite   *)
(* of them; while the collector waits for a result the segment under the   *)
(* cursor is not among them, so a non-empty buffer holds at most           *)
(* segmentCount - 1.  The bound is the segment count, not the pool size.   *)
C12_BufferBound ==
    /\ \A k \in DOMAIN segMap : nextToWrite <= k /\ k < endNum
    /\ Cardinality(DOMAIN segMap) <= endNum - nextToWrite
    /\ (pc = "recv" /\ segMap # <<>>) =>
          /\ nextToWrite \notin DOMAIN segMap
          /\ Cardinality(DOMAIN segMap) <= totalSegments - 1

(* Six segments, five workers: the segment under the cursor is still being *)
(* fetched while the five after it are in the buffer.                      *)
C12_Witness ==
    /\ pc = "recv"
    /\ totalSegments = workerCount + 1
    /\ nextToWrite = startNum
    /\ Cardinality(DOMAIN segMap) = workerCount
    /\ \E w \in Running : w.pc = "fetch" /\ w.segNum = startNum

(***************************************************************************)
(* C13: once the context is cancelled, every worker that was or will be    *)
(* started exits, wherever the cancellation found it, and results is       *)
(* closed: no worker and no closer goroutine stays blocked.  (A call that  *)
(* returned before it started any goroutine has nothing to release.)       *)
(***************************************************************************)
AllExited == \A w \in Running : w.pc = "exit"

Released ==
    \/ Returned /\ wk = EmptyBag
    \/ wk # EmptyBag /\ AllExited /\ wg = 0 /\ resultsClosed /\ closer = "done"

C13_NoLeak == cancelled ~> Released

(* The context was cancelled while the workers were running; they left     *)
(* without publishing every result and results is closed.                  *)
C13_Witness ==
    /\ cancelAt = "running"
    /\ wk # EmptyBag
    /\ AllExited
    /\ resultsClosed
    /\ BagCardinality(published) < totalSegments

(***************************************************************************)
(* C14, as stated: when DownloadStream has returned, on success and on     *)
(* every failure path, no worker of the call is still running: none waits  *)
(* for an index, fetches or is about to publish.  The code breaks it: the  *)
(* returns on a failed result and on a failed write neither cancel the     *)
(* workers nor wait for them, so they go on taking indices and fetching.   *)
(***************************************************************************)
C14_NothingOutlives == Returned => AllExited

(***************************************************************************)
(* C15: on every return of DownloadStream after the temp file was created  *)
(* (address error, init failure, segment failure, write failure,           *)
(* cancellation, success) the file handle is closed when the call has      *)
(* returned; it is closed by the return and by nothing else, and every     *)
(* write to the sink happens while it is open.                             *)
(***************************************************************************)
C15_SinkReleased ==
    [][ /\ (pc' = "done" /\ ret'.err.kind # "tempfile") => ~tmpOpen'
        /\ (tmpOpen /\ ~tmpOpen') => (pc # "done" /\ pc' = "done")
        /\ sink' # sink => tmpOpen ]_vars

(* A write failed after a segment had been written: the call returned and  *)
(* the handle is closed.                                                   *)
C15_Witness ==
    /\ Returned
    /\ ret.err.kind = "write"
    /\ written # <<>>
    /\ ~tmpOpen

(***************************************************************************)
(* C16: once the pool is started it has exactly 5 workers, whatever the    *)
(* segment count (also 0 and less than 5); none is started before or       *)
(* added later; and in every state at most 5 segment fetches are in        *)
(* flight.                                                                 *)
(***************************************************************************)
PoolStarted == pc \in {"load", "recv", "flush"} \/ (Returned /\ jobsClosed)

InFlight == {w \in Running : w.pc = "fetch"}

FetchesInFlight ==
    IF InFlight = {} THEN 0
    ELSE BagCardinality([w \in InFlight |-> CopiesIn(w, wk)])

C16_BoundedPool ==
    /\ PoolStarted => BagCardinality(wk) = 5
    /\ ~PoolStarted => wk = EmptyBag
    /\ FetchesInFlight <= 5
    /\ wg = BagCardinality(wk) - CopiesIn(ExitedWorker, wk)

(* Six segments: five fetches are in flight and the sixth index waits in   *)
(* jobs.                                                                   *)
C16_Witness ==
    /\ FetchesInFlight = 5
    /\ Len(jobs) = 1
    /\ totalSegments = 6

C18_TempFilesRemoved ==
    rpc = "exit" => \A f \in created : f \notin disk

(***************************************************************************)
(* C19, as stated: when the signal arrives while a stream download is in   *)
(* progress and nothing but the cancellation makes a download fail, run    *)
(* prints 'Download cancelled.', returns exit code 0 and never invokes the *)
(* merge.  The code breaks it: DownloadStream never                        *)
(* returns context.Canceled itself (see C5) and can return success after   *)
(* the cancellation (see C3).                                              *)
(***************************************************************************)
C19_GracefulShutdown ==
    (rpc = "exit" /\ sigAt \in {"video", "audio"} /\ ret.err.cause \in {"none", "canceled"}) =>
        /\ cancelled
        /\ Printed("Download cancelled.")
        /\ exitCode = 0
        /\ ~merged

(***************************************************************************)
(* C20: if the video or the audio download returns context.Canceled, run   *)
(* prints 'Download cancelled.', returns exit code 0, prints no download   *)
(* error and does not invoke the merge.                                    *)
(***************************************************************************)
C20_CancelNotAnError ==
    (rpc = "exit" /\ ret.err = Canceled) =>
        /\ Printed("Download cancelled.")
        /\ exitCode = 0
        /\ ~Printed("Error downloading video")
        /\ ~Printed("Error downloading audio")
        /\ ~merged

(* The video download returned a path and the audio download returned      *)
(* context.Canceled.                                                       *)
C20_Witness ==
    /\ rpc = "exit"
    /\ ret.err = Canceled
    /\ videoFile = "temp.mp4"
    /\ exitCode = 0

(***************************************************************************)
(* C21, as stated: run begins dependency check, manifest parse, directory  *)
(* creation, video selection, audio selection, video download, audio       *)
(* download and merge in that order; the first step that fails makes run   *)
(* return 1 with the message of that step and no later step begins; and    *)
(* 'Successfully created' with exit code 0 comes only after all of them.   *)
(* Refuted: a download that fails with context.Canceled makes run return 0 *)
(* with 'Download cancelled.'.                                             *)
(***************************************************************************)
Pipeline ==
    <<"deps", "manifest", "mkdir", "selectVideo", "selectAudio", "video", "audio", "merge">>

ErrMsg(step) ==
    CASE step = "url" -> "Error: --url is required"
      [] step = "deps" -> IF checkDeps THEN "Dependency Check: FAIL"
                          ELSE "Error: ffmpeg is not installed or not in PATH"
      [] step = "manifest" -> "Error parsing manifest"
      [] step = "mkdir" -> "Error creating output directory"
      [] step = "selectVideo" -> "Error selecting video stream"
      [] step = "selectAudio" -> "Error selecting audio stream"
      [] step = "video" -> "Error downloading video"
      [] step = "audio" -> "Error downloading audio"
      [] step = "merge" -> "Error combining video and audio"

InOrder ==
    /\ IsPrefix(steps, Pipeline)
    /\ failed # "none" =>
          /\ rpc = "exit"
          /\ IF failed = "url" THEN steps = <<>> ELSE steps[Len(steps)] = failed
    /\ merged <=> (steps = Pipeline)
    /\ Printed("Successfully created") =>
          (exitCode = 0 /\ merged /\ failed = "none" /\ stdout[Len(stdout)] = "Successfully created")

C21_PipelineOrderAsStated ==
    /\ InOrder
    /\ failed # "none" =>
          (exitCode = 1 /\ stdout[Len(stdout)] = ErrMsg(failed))

(* C21, amended: as stated, except that a video or audio download that     *)
(* returns context.Canceled makes run return 0 with 'Download cancelled.'  *)
(* and no download error; every other failing step makes it return 1 with  *)
(* the message of the step.  In both cases no later step begins.           *)
C21_PipelineOrder ==
    /\ InOrder
    /\ failed # "none" =>
          IF failed \in {"video", "audio"} /\ ret.err = Canceled
          THEN exitCode = 0 /\ stdout[Len(stdout)] = "Download cancelled."
          ELSE exitCode = 1 /\ stdout[Len(stdout)] = ErrMsg(failed)

(* Both downloads succeeded and the merge failed.                          *)
C21_Witness ==
    /\ rpc = "exit"
    /\ failed = "merge"
    /\ steps = Pipeline
    /\ exitCode = 1
    /\ videoFile = "temp.mp4"
    /\ audioFile = "temp.mp4"

(***************************************************************************)
(* C22: with --check-dependencies, run returns 0 and prints                *)
(* 'Dependency Check: PASS' exactly when ffmpeg is found, returns 1 and    *)
(* prints 'Dependency Check: FAIL' otherwise, whether or not --url is      *)
(* given, and fetches no manifest, downloads nothing and merges nothing.   *)
(***************************************************************************)
NothingFetched ==
    /\ pc = "idle"
    /\ ~merged
    /\ created = {}
    /\ \A n \in 1..Len(steps) : steps[n] = "deps"
    /\ ~Printed("Fetching manifest")

C22_CheckDependenciesMode ==
    checkDeps =>
        /\ rpc \in {"start", "exit"}
        /\ NothingFetched
        /\ rpc = "exit" =>
              /\ steps = <<"deps">>
              /\ ffmpeg => (exitCode = 0 /\ stdout = <<"Dependency Check: PASS">>)
              /\ ~ffmpeg => (exitCode = 1 /\ stdout = <<"Dependency Check: FAIL">>)

(* --check-dependencies without --url, ffmpeg installed: PASS and 0.       *)
C22_Witness ==
    /\ checkDeps
    /\ ~urlGiven
    /\ ffmpeg
    /\ rpc = "exit"
    /\ exitCode = 0
    /\ stdout = <<"Dependency Check: PASS">>

(***************************************************************************)
(* C23: without --url and without --check-dependencies, run prints         *)
(* 'Error: --url is required', returns 1 and has done nothing else: no     *)
(* dependency lookup, manifest fetch, directory creation, download or      *)
(* merge.                                                                  *)
(***************************************************************************)
C23_UrlRequired ==
    (~urlGiven /\ ~checkDeps) =>
        /\ rpc \in {"start", "exit"}
        /\ NothingFetched
        /\ steps = <<>>
        /\ rpc = "exit" =>
              (exitCode = 1 /\ failed = "url" /\ stdout = <<"Error: --url is required">>)

(* No --url and no ffmpeg either: the missing URL is what is reported.     *)
C23_Witness ==
    /\ ~urlGiven
    /\ ~checkDeps
    /\ ~ffmpeg
    /\ rpc = "exit"
    /\ exitCode = 1
    /\ stdout = <<"Error: --url is required">>

(***************************************************************************)
(* model.MPD: the selection of the video and the audio representation.     *)
(* A manifest is the sequence of its adaptation sets in document order; a  *)
(* returned *Representation is the place <<set, representation>> it points *)
(* to.                                                                     *)
(***************************************************************************)
MaxSets == 2
MaxReps == 2
minDiff == 10000

MimeTypes == {"video/mp4", "audio/mp4", "text/vtt"}
Heights == {360, 720}
TargetHeights == {540, 720, minDiff + 360}

SeqsUpTo(S, n) == UNION {[1..k -> S] : k \in 0..n}

Representation == [Height : Heights]
AdaptationSet == [MimeType : MimeTypes, Representations : SeqsUpTo(Representation, MaxReps)]
Manifests == SeqsUpTo(AdaptationSet, MaxSets)

abs(x) == IF x < 0 THEN -x ELSE x

(* The inner loop over as.Representations, from index r on.                *)
RECURSIVE ScanRepresentations(_, _, _, _, _)
ScanRepresentations(m, target, s, r, acc) ==
    IF r > Len(m[s].Representations)
    THEN acc
    ELSE LET diff == abs(m[s].Representations[r].Height - target)
         IN  ScanRepresentations(m, target, s, r + 1,
                 IF diff < acc.minDiff
                 THEN [bestRep |-> <<s, r>>, minDiff |-> diff]
                 ELSE acc)

(* The outer loop over mpd.Period.AdaptationSets, from index s on.         *)
RECURSIVE ScanAdaptationSets(_, _, _, _)
ScanAdaptationSets(m, target, s, acc) ==
    IF s > Len(m)
    THEN acc
    ELSE ScanAdaptationSets(m, target, s + 1,
             IF m[s].MimeType = "video/mp4"
             THEN ScanRepresentations(m, target, s, 1, acc)
             ELSE acc)

SelectVideoRepresentation(m, target) ==
    LET acc == ScanAdaptationSets(m, target, 1, [bestRep |-> <<>>, minDiff |-> minDiff])
    IN  IF acc.bestRep = <<>>
        THEN [at |-> <<>>, err |-> "no video representation found"]
        ELSE [at |-> acc.bestRep, err |-> ""]

(* SelectAudioRepresentation that looks at the first audio/mp4 set only.   *)
RECURSIVE SelectAudioFirstSetOnly(_, _)
SelectAudioFirstSetOnly(m, s) ==
    IF s > Len(m)
    THEN [at |-> <<>>, err |-> "no audio representation found"]
    ELSE IF m[s].MimeType = "audio/mp4"
         THEN IF Len(m[s].Representations) > 0
              THEN [at |-> <<s, 1>>, err |-> ""]
              ELSE [at |-> <<>>, err |-> "no audio representation found"]
         ELSE SelectAudioFirstSetOnly(m, s + 1)

(* The loop of SelectAudioRepresentation, from index s on.                 *)
RECURSIVE SelectAudioRepresentation(_, _)
SelectAudioRepresentation(m, s) ==
    IF s > Len(m)
    THEN [at |-> <<>>, err |-> "no audio representation found"]
    ELSE IF m[s].MimeType = "audio/mp4" /\ Len(m[s].Representations) > 0
         THEN [at |-> <<s, 1>>, err |-> ""]
         ELSE SelectAudioRepresentation(m, s + 1)

InitSelect ==
    /\ totalDurationSecs = 0
    /\ rep = [StartNumber |-> 1, Timescale |-> 1, Duration |-> 1]
    /\ urlFault = "none"
    /\ faulty = FALSE
    /\ InitState
    /\ NoRun
    /\ mpd \in Manifests
    /\ targetHeight \in TargetHeights
    /\ videoSel = NotCalled
    /\ audioSel = NotCalled
    /\ base = <<>>
    /\ relative = <<>>
    /\ resolved = <<>>
    /\ NoFetchCall
    /\ NoSanitize

NotSelecting ==
    UNCHANGED <<inputs, cancelled, mainVars, chanVars, wk, closer, ghostVars,
                dispatchVars, fsVars, runVars, mpd, targetHeight, base, relative, resolved,
                exchange, fetchRet, name, safe>>

(* mpd.SelectVideoRepresentation(targetHeight)                             *)
SelectVideo ==
    /\ videoSel = NotCalled
    /\ videoSel' = SelectVideoRepresentation(mpd, targetHeight)
    /\ UNCHANGED audioSel
    /\ NotSelecting

(* mpd.SelectAudioRepresentation()                                         *)
SelectAudio ==
    /\ audioSel = NotCalled
    /\ audioSel' = SelectAudioRepresentation(mpd, 1)
    /\ UNCHANGED videoSel
    /\ NotSelecting

NextSelect ==
    \/ SelectVideo
    \/ SelectAudio

SpecSelect == InitSelect /\ [][NextSelect]_vars

(* The places of the representations of the adaptation sets of one type.   *)
Places(type) ==
    {<<s, r>> \in (1..Len(mpd)) \X (1..MaxReps + 1) :
        mpd[s].MimeType = type /\ r <= Len(mpd[s].Representations)}

HeightAt(at) == mpd[at[1]].Representations[at[2]].Height

(* Document order of two places.                                           *)
Before(a, b) == a[1] < b[1] \/ (a[1] = b[1] /\ a[2] < b[2])

(***************************************************************************)
(* C24: for every target height and every manifest with a video/mp4        *)
(* representation, SelectVideoRepresentation returns without error a video *)
(* representation whose distance |height - targetHeight| is the least of   *)
(* all video representations, the first such in document order; it         *)
(* returns an error when the manifest has no video/mp4 representation.     *)
(***************************************************************************)
C24_ClosestHeight ==
    videoSel # NotCalled =>
        IF Places("video/mp4") = {}
        THEN videoSel.err # ""
        ELSE /\ videoSel.err = ""
             /\ videoSel.at \in Places("video/mp4")
             /\ \A o \in Places("video/mp4") :
                  LET d  == abs(HeightAt(videoSel.at) - targetHeight)
                      od == abs(HeightAt(o) - targetHeight)
                  IN  d <= od /\ (d = od => ~Before(o, videoSel.at))

(***************************************************************************)
(* C25: SelectAudioRepresentation returns the first representation of the  *)
(* first audio/mp4 adaptation set in document order that has one, returns  *)
(* an error if and only if no audio/mp4 adaptation set has one, and never  *)
(* returns a representation of a video adaptation set.                     *)
(***************************************************************************)
C25_FirstAudio ==
    audioSel # NotCalled =>
        /\ (audioSel.err # "") <=> (Places("audio/mp4") = {})
        /\ audioSel.err = "" =>
              /\ audioSel.at \in Places("audio/mp4")
              /\ audioSel.at[2] = 1
              /\ \A o \in Places("audio/mp4") : ~Before(o, audioSel.at)
              /\ mpd[audioSel.at[1]].MimeType # "video/mp4"
        /\ audioSel.err # "" => audioSel.at = <<>>

(* A video set, an audio set without representations, then the audio set   *)
(* whose first representation is returned.                                 *)
C25_Witness ==
    /\ Len(mpd) = 2
    /\ mpd[1].MimeType = "audio/mp4"
    /\ mpd[1].Representations = <<>>
    /\ mpd[2].MimeType = "audio/mp4"
    /\ Len(mpd[2].Representations) = 2
    /\ audioSel = [at |-> <<2, 1>>, err |-> ""]

(***************************************************************************)
(* resolveSegmentUrl: url.Parse of both strings, URL.ResolveReference and  *)
(* URL.String.  A string is the sequence of its tokens: the scheme with    *)
(* its colon, "/", "?", a name, a dot segment, a raw space, a control      *)
(* character.  Every base starts with https://h, so the opaque form and a  *)
(* reference with a scheme of its own do not arise; no string has a        *)
(* fragment, user information or a lone "?".                               *)
(***************************************************************************)
MaxBasePath == 3
MaxRef == 3
MaxCalls == 2

Ctl == "\t"
Space == " "
Origin == <<"https:", "/", "/", "h">>
BasePathTokens == {"/", "b"}
RefTokens == {"/", "a", "..", ".", Space, Ctl}

Bases ==
    {Origin \o p \o q : p \in SeqsUpTo(BasePathTokens, MaxBasePath),
                        q \in {<<>>, <<"?", "k=1">>}}
        \cup {Origin \o <<Ctl>>}

Refs ==
    {p \o q : p \in SeqsUpTo(RefTokens, MaxRef), q \in {<<>>, <<"?", "k=2">>}}

(* strings.Index and strings.LastIndex of one token, 0 when it is absent.  *)
IndexOf(str, t) ==
    IF \E n \in 1..Len(str) : str[n] = t
    THEN CHOOSE n \in 1..Len(str) : str[n] = t /\ \A k \in 1..(n - 1) : str[k] # t
    ELSE 0

LastIndex(str, t) ==
    IF \E n \in 1..Len(str) : str[n] = t
    THEN CHOOSE n \in 1..Len(str) : str[n] = t /\ \A k \in (n + 1)..Len(str) : str[k] # t
    ELSE 0

HasPrefix(str, pre) == Len(str) >= Len(pre) /\ SubSeq(str, 1, Len(pre)) = pre

Has(str, t) == \E n \in 1..Len(str) : str[n] = t

(* escape(path, encodePath) and unescape: a raw space and %20.             *)
Escape(str) == [n \in 1..Len(str) |-> IF str[n] = Space THEN "%20" ELSE str[n]]

Unescape(str) == [n \in 1..Len(str) |-> IF str[n] = "%20" THEN Space ELSE str[n]]

(* url.Parse                                                               *)
Parse(rawURL) ==
    IF Has(rawURL, Ctl)
    THEN [err |-> "invalid control character in URL"]
    ELSE LET hasScheme == rawURL # <<>> /\ rawURL[1] = "https:"
             afterScheme == IF hasScheme THEN Tail(rawURL) ELSE rawURL
             q == IndexOf(afterScheme, "?")
             rest == IF q = 0 THEN afterScheme ELSE SubSeq(afterScheme, 1, q - 1)
             RawQuery == IF q = 0 THEN <<>> ELSE SubSeq(afterScheme, q + 1, Len(afterScheme))
             hasAuthority == /\ hasScheme \/ ~HasPrefix(rest, <<"/", "/", "/">>)
                             /\ HasPrefix(rest, <<"/", "/">>)
             tail == SubSeq(rest, 3, Len(rest))
             cut == IndexOf(tail, "/")
             authority == IF cut = 0 THEN tail ELSE SubSeq(tail, 1, cut - 1)
             path == IF ~hasAuthority THEN rest
                     ELSE IF cut = 0 THEN <<>> ELSE SubSeq(tail, cut, Len(tail))
         IN  IF hasAuthority /\ Has(authority, Space)
             THEN [err |-> "invalid character in host name"]
             ELSE [err |-> "",
                   Scheme |-> IF hasScheme THEN "https" ELSE "",
                   Host |-> IF hasAuthority THEN authority ELSE <<>>,
                   Path |-> Unescape(path),
                   RawQuery |-> RawQuery]

(* strings.Cut on "/" until nothing is left: the elements of a path.       *)
RECURSIVE Split(_)
Split(str) ==
    LET k == IndexOf(str, "/")
    IN  IF k = 0 THEN <<str>>
        ELSE <<SubSeq(str, 1, k - 1)>> \o Split(SubSeq(str, k + 1, Len(str)))

(* The loop of resolvePath over the elements, from element n on: dst is    *)
(* the path built so far.                                                  *)
RECURSIVE RemoveDots(_, _, _, _)
RemoveDots(elems, n, dst, first) ==
    IF n > Len(elems)
    THEN dst
    ELSE IF elems[n] = <<".">>
         THEN RemoveDots(elems, n + 1, dst, FALSE)
         ELSE IF elems[n] = <<"..">>
              THEN LET str == Tail(dst)
                       index == LastIndex(str, "/")
                   IN  IF index = 0
                       THEN RemoveDots(elems, n + 1, <<"/">>, TRUE)
                       ELSE RemoveDots(elems, n + 1,
                                <<"/">> \o SubSeq(str, 1, index - 1), first)
              ELSE RemoveDots(elems, n + 1,
                       (IF first THEN dst ELSE Append(dst, "/")) \o elems[n], FALSE)

(* resolvePath that joins the reference to the directory of the base and   *)
(* leaves the dot segments where they are.                                 *)
resolvePathKeepsDots(basePath, refPath) ==
    LET full == IF refPath = <<>> THEN basePath
                ELSE IF refPath[1] # "/"
                     THEN SubSeq(basePath, 1, LastIndex(basePath, "/")) \o refPath
                     ELSE refPath
    IN  IF full = <<>> \/ full[1] = "/" THEN full ELSE <<"/">> \o full

(* resolvePath of net/url                                                  *)
resolvePath(basePath, refPath) ==
    LET full == IF refPath = <<>> THEN basePath
                ELSE IF refPath[1] # "/"
                     THEN SubSeq(basePath, 1, LastIndex(basePath, "/")) \o refPath
                     ELSE refPath
    IN  IF full = <<>>
        THEN <<>>
        ELSE LET elems == Split(full)
                 dst == RemoveDots(elems, 1, <<"/">>, TRUE)
                 r == IF elems[Len(elems)] \in {<<".">>, <<"..">>}
                      THEN Append(dst, "/")
                      ELSE dst
             IN  IF Len(r) > 1 /\ r[2] = "/" THEN Tail(r) ELSE r

(* u.ResolveReference(ref)                                                 *)
ResolveReference(u, ref) ==
    IF ref.Scheme # "" \/ ref.Host # <<>>
    THEN [err |-> "",
          Scheme |-> IF ref.Scheme = "" THEN u.Scheme ELSE ref.Scheme,
          Host |-> ref.Host,
          Path |-> Unescape(resolvePath(Escape(ref.Path), <<>>)),
          RawQuery |-> ref.RawQuery]
    ELSE [err |-> "",
          Scheme |-> u.Scheme,
          Host |-> u.Host,
          Path |-> Unescape(resolvePath(Escape(u.Path), Escape(ref.Path))),
          RawQuery |-> IF ref.Path = <<>> /\ ref.RawQuery = <<>>
                       THEN u.RawQuery
                       ELSE ref.RawQuery]

(* u.String()                                                              *)
String(u) ==
    LET path == Escape(u.Path)
    IN  (IF u.Scheme # "" THEN <<"https:">> ELSE <<>>)
        \o (IF (u.Scheme # "" \/ u.Host # <<>>) /\ (u.Host # <<>> \/ u.Path # <<>>)
            THEN <<"/", "/">> \o u.Host
            ELSE <<>>)
        \o (IF path # <<>> /\ path[1] # "/" /\ u.Host # <<>> THEN <<"/">> ELSE <<>>)
        \o path
        \o (IF u.RawQuery # <<>> THEN <<"?">> \o u.RawQuery ELSE <<>>)

(* resolveSegmentUrl(base, relative, repID); repID is not used.            *)
resolveSegmentUrl(b, r) ==
    LET u == Parse(b)
        rel == Parse(r)
    IN  IF u.err # "" THEN [url |-> <<>>, err |-> u.err]
        ELSE IF rel.err # "" THEN [url |-> <<>>, err |-> rel.err]
        ELSE [url |-> String(ResolveReference(u, rel)), err |-> ""]

InitResolve ==
    /\ totalDurationSecs = 0
    /\ rep = [StartNumber |-> 1, Timescale |-> 1, Duration |-> 1]
    /\ urlFault = "none"
    /\ faulty = FALSE
    /\ InitState
    /\ NoRun
    /\ mpd = <<>>
    /\ targetHeight = 0
    /\ videoSel = NotCalled
    /\ audioSel = NotCalled
    /\ base \in Bases
    /\ relative \in Refs
    /\ resolved = <<>>
    /\ NoFetchCall
    /\ NoSanitize

(* One more call of resolveSegmentUrl with the same two strings.           *)
Resolve ==
    /\ Len(resolved) < MaxCalls
    /\ resolved' = Append(resolved, resolveSegmentUrl(base, relative))
    /\ UNCHANGED <<inputs, cancelled, mainVars, chanVars, wk, closer, ghostVars,
                   dispatchVars, fsVars, runVars, mpd, targetHeight, videoSel, audioSel,
                   base, relative, exchange, fetchRet, name, safe>>

SpecResolve == InitResolve /\ [][Resolve]_vars

(* What the first call returned.                                           *)
Resolution == resolved[1]

(* The directory of a path, and the directory n levels above a directory,  *)
(* the root being its own parent.                                          *)
Dir(path) == IF path = <<>> THEN <<"/">> ELSE SubSeq(path, 1, LastIndex(path, "/"))

RECURSIVE Up(_, _)
Up(dir, n) ==
    IF n = 0 \/ dir = <<"/">>
    THEN dir
    ELSE LET s == SubSeq(dir, 1, Len(dir) - 1)
         IN  Up(SubSeq(s, 1, LastIndex(s, "/")), n - 1)

(* The path ../../.. of n dot-dot segments.                                *)
Ups(n) == [k \in 1..(2 * n - 1) |-> IF k % 2 = 1 THEN ".." ELSE "/"]

(* A string RFC 3986 accepts: no control character and no raw space.       *)
WellFormed(str) == ~Has(str, Ctl) /\ ~Has(str, Space)

Deterministic == \A k \in 1..Len(resolved) : resolved[k] = resolved[1]

(* refPath is an absolute path and path is the path of the result: it has  *)
(* nothing of the base, it is the path the bare origin gives, and it is    *)
(* the path of the reference when that has no dot segment.                 *)
AbsolutePathReplaces(refPath, path) ==
    /\ ~Has(path, "b")
    /\ path = Parse(resolveSegmentUrl(Origin, relative).url).Path
    /\ (\A n \in 1..Len(refPath) : refPath[n] \in {"/", "a"})
          => \E n \in 0..Len(refPath) :
                /\ path = SubSeq(refPath, n + 1, Len(refPath))
                /\ \A k \in 1..n : refPath[k] = "/"
                /\ HasPrefix(path, <<"/">>)

DotDotWalksUp(basePath, refPath, path) ==
    \A n \in 1..(MaxRef + 1) :
        /\ refPath = Ups(n) => path = Up(Dir(basePath), n)
        /\ refPath = Ups(n) \o <<"/", "a">> => path = Up(Dir(basePath), n) \o <<"a">>

(* The parts of C26 that hold as stated, for a call that returned a URL.   *)
ResolvesAsStated ==
    (Len(resolved) >= 1 /\ Resolution.err = "") =>
        LET u == Parse(base)
            ref == Parse(relative)
            out == Parse(Resolution.url)
        IN  /\ (ref.Host = <<>> /\ HasPrefix(ref.Path, <<"/">>))
                  => AbsolutePathReplaces(ref.Path, out.Path)
            /\ Has(ref.Path, "..") => DotDotWalksUp(u.Path, ref.Path, out.Path)
            /\ ref.RawQuery # <<>>
                  => (out.RawQuery = ref.RawQuery /\ ~Has(Resolution.url, "k=1"))

C27_WorkersStopOnCancel ==
    [][cancelled => (taken' = taken /\ published' = published)]_vars

(***************************************************************************)
(* C28: the loader never finds jobs full; jobs is closed once, after every *)
(* index of the stream was sent on it exactly once; results is closed      *)
(* once, after all workerCount workers have exited; and whatever the       *)
(* interleaving, cancellation and failures included, nothing is sent on a  *)
(* channel after its close.                                                *)
(***************************************************************************)
LoaderNeverBlocks == (pc = "load" /\ i < endNum) => Len(jobs) < totalSegments

JobsLoaded ==
    /\ BagToSet(enqueued) = Indices
    /\ AtMostOnce(enqueued)
    /\ BagCardinality(enqueued) = totalSegments

WorkersGone ==
    /\ AllExited
    /\ BagCardinality(wk) = workerCount
    /\ wg = 0

ChannelsInOrder ==
    /\ LoaderNeverBlocks
    /\ Len(jobs) <= totalSegments
    /\ jobsClosed => (JobsLoaded /\ pc # "load")
    /\ resultsClosed => (jobsClosed /\ WorkersGone /\ closer = "done")

C28_ChannelDiscipline ==
    [][/\ ChannelsInOrder
       /\ ChannelsInOrder'
       /\ jobsClosed => (jobsClosed' /\ enqueued' = enqueued)
       /\ resultsClosed => (resultsClosed' /\ published' = published /\ wk' = wk)
       /\ jobsClosed' # jobsClosed => (JobsLoaded /\ i = endNum)
       /\ resultsClosed' # resultsClosed => WorkersGone]_vars

(* A cancelled run of two segments and more: both channels are closed, an  *)
(* index is still queued in jobs and a result was never received.          *)
C28_Witness ==
    /\ cancelled
    /\ totalSegments >= 2
    /\ jobsClosed
    /\ resultsClosed
    /\ jobs # <<>>
    /\ results # <<>>
    /\ BagCardinality(published) < totalSegments

(***************************************************************************)
(* C29: each time the collector has finished with one arrival and is back  *)
(* at the receive, segMap has no entry for nextToWrite, every index in     *)
(* segMap is greater than nextToWrite, and every index from startNum up to *)
(* nextToWrite has been written to the file, in order, and is no longer in *)
(* segMap.                                                                 *)
(***************************************************************************)
C29_FlushedWhenContiguous ==
    (pc = "recv" \/ (Succeeded /\ jobsClosed)) =>
        /\ nextToWrite \notin DOMAIN segMap
        /\ \A k \in DOMAIN segMap : k > nextToWrite
        /\ written = IndexRun(startNum, nextToWrite - startNum)
        /\ sink = InitData \o ConcatPayloads(startNum, nextToWrite - startNum)
        /\ \A k \in startNum..(nextToWrite - 1) : k \notin DOMAIN segMap

(* The collector is back at the receive with a segment written and a later *)
(* one waiting in segMap for the one between them.                         *)
C29_Witness ==
    /\ pc = "recv"
    /\ nextToWrite > startNum
    /\ written # <<>>
    /\ DOMAIN segMap # {}
    /\ Len(arrival) >= 2

(***************************************************************************)
(* C30: when nobody cancels and nothing fails, the workers all exit,       *)
(* results is closed and DownloadStream returns the name of its file and   *)
(* no error, whatever the number of segments, none and fewer than          *)
(* workerCount included: loader, workers, closer and collector never wait  *)
(* for each other forever.                                                 *)
(***************************************************************************)
C30_CollectorTerminates ==
    <>(/\ Succeeded
       /\ ret.path = TmpName
       /\ resultsClosed
       /\ WorkersGone
       /\ written = IndexRun(startNum, totalSegments))

(* The stream without segments: five workers started and left, nothing     *)
(* written after the init segment.                                         *)
C30_Witness ==
    /\ totalSegments = 0
    /\ Succeeded
    /\ resultsClosed
    /\ WorkersGone
    /\ sink = InitData

(***************************************************************************)
(* C31: results never holds more than totalSegments results, so a worker   *)
(* that has a result to send finds room for it, also after the collector   *)
(* has returned on a failure and receives no more; and once workers exist  *)
(* they all exit in the end.                                               *)
(***************************************************************************)
PublishCanProceed ==
    /\ Len(results) <= totalSegments
    /\ \A w \in Running : w.pc = "publish" => (Len(results) < Capacity /\ ~resultsClosed)

C31_PublishNeverBlocks ==
    /\ []PublishCanProceed
    /\ (wk # EmptyBag) ~> WorkersGone

(* The collector returned on the failure of the first result it received;  *)
(* the other result was sent all the same and every worker has exited.     *)
C31_Witness ==
    /\ Returned
    /\ ret.err.kind = "segment"
    /\ ~cancelled
    /\ Len(arrival) = 1
    /\ results # <<>>
    /\ WorkersGone

(***************************************************************************)
(* C32: a step of a worker (taking an index, fetching, sending, exiting)   *)
(* or of the closer leaves segMap, nextToWrite and the content of the file *)
(* as they are; they change only in steps of the goroutine that runs       *)
(* DownloadStream, and the init segment is in the file before any worker   *)
(* exists.                                                                 *)
(***************************************************************************)
WorkerOrCloserStep ==
    \/ wk' # wk /\ pc # "startWorkers"
    \/ resultsClosed' # resultsClosed

C32_SingleWriter ==
    [][/\ WorkerOrCloserStep => UNCHANGED <<segMap, nextToWrite, sink, written>>
       /\ (<<segMap, nextToWrite, sink>>)' # <<segMap, nextToWrite, sink>>
             => (pc \in {"fetchInit", "load", "recv", "flush"} /\ pc' # "idle" /\ wk' = wk)
       /\ wk' # EmptyBag => (initDone /\ IsPrefix(InitData, sink))]_vars

(* The workers and the closer are through while the collector has written  *)
(* one segment and holds another in segMap.                                *)
C32_Witness ==
    /\ WorkersGone
    /\ resultsClosed
    /\ DOMAIN segMap # {}
    /\ written # <<>>
    /\ sink = InitData \o ConcatPayloads(startNum, Len(written))

(***************************************************************************)
(* One HTTP exchange, as downloadSegment and downloadAndAppend handle it.  *)
(* The exchange is what http.DefaultClient.Do and the body reader give:    *)
(* transport says that Do returned an error, StatusCode and Body are the   *)
(* response's, and read is the number of body bytes the reader delivers    *)
(* before it ends (read = Len(Body)) or fails (read < Len(Body)).          *)
(***************************************************************************)
MaxBody == 2

StatusOK == 200

Statuses == {StatusOK, 201, 204, 206, 301, 404, 500}

Bodies == SeqsUpTo({1, 2}, MaxBody)

Exchanges ==
    {x \in [fn : {"downloadSegment", "downloadAndAppend"}, transport : BOOLEAN,
            StatusCode : Statuses, Body : Bodies, read : 0..MaxBody] :
        x.read <= Len(x.Body)}

StatusAcceptedAlways(code) == TRUE

(* The test both functions make on the response: resp.StatusCode !=        *)
(* http.StatusOK is the failure.                                           *)
StatusAccepted(code) == code = StatusOK

(* What the body reader delivers of the exchange x.                        *)
Delivered(x) == SubSeq(x.Body, 1, x.read)

(* downloadSegment from the answer of Do on: io.ReadAll returns the bytes  *)
(* it read, with an error when the reader failed.                          *)
downloadSegment(x) ==
    IF x.transport
    THEN [data |-> <<>>, written |-> <<>>, err |-> "transport", status |-> 0]
    ELSE IF ~StatusAccepted(x.StatusCode)
    THEN [data |-> <<>>, written |-> <<>>, err |-> "status", status |-> x.StatusCode]
    ELSE [data |-> Delivered(x), written |-> <<>>,
          err |-> IF x.read = Len(x.Body) THEN "none" ELSE "io", status |-> 0]

(* downloadAndAppend from the answer of Do on: io.Copy writes to w the     *)
(* bytes it read, and returns the reader's error.                          *)
downloadAndAppend(x) ==
    IF x.transport
    THEN [data |-> <<>>, written |-> <<>>, err |-> "transport", status |-> 0]
    ELSE IF ~StatusAccepted(x.StatusCode)
    THEN [data |-> <<>>, written |-> <<>>, err |-> "status", status |-> x.StatusCode]
    ELSE [data |-> <<>>, written |-> Delivered(x),
          err |-> IF x.read = Len(x.Body) THEN "none" ELSE "io", status |-> 0]

InitStatus ==
    /\ totalDurationSecs = 0
    /\ rep = [StartNumber |-> 1, Timescale |-> 1, Duration |-> 1]
    /\ urlFault = "none"
    /\ faulty = FALSE
    /\ InitState
    /\ NoRun
    /\ mpd = <<>>
    /\ targetHeight = 0
    /\ videoSel = NotCalled
    /\ audioSel = NotCalled
    /\ base = <<>>
    /\ relative = <<>>
    /\ resolved = <<>>
    /\ exchange \in Exchanges
    /\ fetchRet = NotCalled
    /\ NoSanitize

HandleResponse ==
    /\ fetchRet = NotCalled
    /\ fetchRet' = IF exchange.fn = "downloadSegment"
                   THEN downloadSegment(exchange)
                   ELSE downloadAndAppend(exchange)
    /\ UNCHANGED <<inputs, cancelled, mainVars, chanVars, wk, closer, ghostVars,
                   dispatchVars, fsVars, runVars, mpd, targetHeight, videoSel, audioSel,
                   base, relative, resolved, exchange, name, safe>>

SpecStatus == InitStatus /\ [][HandleResponse]_vars

(* The request that got an answer with a status in the 2xx range.          *)
Is2xx(code) == code >= 200 /\ code < 300

(* The body bytes a call hands over: returned by downloadSegment, written  *)
(* to w by downloadAndAppend.                                              *)
Yielded == IF exchange.fn = "downloadSegment" THEN fetchRet.data ELSE fetchRet.written

Answered == fetchRet # NotCalled /\ ~exchange.transport

(* C33 as stated: an init or media fetch whose response arrives whole      *)
(* succeeds exactly when the HTTP status is in the 2xx range; every        *)
(* non-2xx response is a failure that carries the status, and every 2xx    *)
(* response yields its body bytes.                                         *)
C33_SuccessIff2xx ==
    (Answered /\ exchange.read = Len(exchange.Body)) =>
        /\ (fetchRet.err = "none") <=> Is2xx(exchange.StatusCode)
        /\ ~Is2xx(exchange.StatusCode) =>
               (fetchRet.err = "status" /\ fetchRet.status = exchange.StatusCode)
        /\ Is2xx(exchange.StatusCode) => Yielded = exchange.Body

(* C33 amended: an init or media fetch succeeds exactly when the HTTP      *)
(* status is 200 and the body is read to its end; every other status, the  *)
(* other 2xx ones included, is a failure that carries the status and       *)
(* yields no byte, and a 200 response yields the body bytes that were read.*)
C33_SuccessIffStatusOK ==
    Answered =>
        /\ (fetchRet.err = "none") <=>
               (exchange.StatusCode = StatusOK /\ exchange.read = Len(exchange.Body))
        /\ exchange.StatusCode # StatusOK =>
               (fetchRet.err = "status" /\ fetchRet.status = exchange.StatusCode
                   /\ Yielded = <<>>)
        /\ exchange.StatusCode = StatusOK =>
               (Yielded = Delivered(exchange) /\ fetchRet.err \in {"none", "io"})

C33_Witness ==
    /\ Answered
    /\ Is2xx(exchange.StatusCode)
    /\ exchange.StatusCode # StatusOK
    /\ exchange.Body # <<>>
    /\ exchange.read = Len(exchange.Body)
    /\ fetchRet.err = "status"
    /\ Yielded = <<>>

(* The calling goroutine is past the computation of totalSegments.         *)
SegmentsCounted == pc \in {"startWorkers", "load", "recv", "panic"}

(* C34: whenever the segment count has been computed from duration /       *)
(* timescale, the timescale was positive and so was the segment duration   *)
(* (a template with timescale = 0 or duration = 0 never gets that far),    *)
(* and totalSegments is a finite non-negative int that make(chan, n)       *)
(* accepts as a channel capacity.                                          *)
C34_DivisionGuarded ==
    SegmentsCounted =>
        /\ rep.Timescale > 0
        /\ rep.Duration > 0
        /\ pc # "panic"
        /\ totalSegments >= 0
        /\ totalSegments < Huge

(* C35: with totalDurationSecs = 0 and a positive segment duration the     *)
(* segment count is 0, no index is enqueued and no media segment is        *)
(* fetched; once the initialization segment is written, the workers all    *)
(* exit on the closed empty queue and DownloadStream returns success with  *)
(* a sink that holds the initialization segment exactly.                   *)
C35_EmptyStream ==
    (totalDurationSecs = 0 /\ rep.Duration > 0 /\ rep.Timescale > 0) =>
        /\ totalSegments = 0
        /\ enqueued = EmptyBag /\ jobs = <<>>
        /\ taken = EmptyBag /\ fetches = EmptyBag /\ published = EmptyBag
        /\ fetched = {} /\ results = <<>>
        /\ \A w \in Running : w.pc \in {"select", "exit"}
        /\ (Returned /\ initDone) =>
               (Succeeded /\ WorkersGone /\ jobsClosed /\ resultsClosed
                   /\ sink = InitData /\ written = <<>>)

C35_Witness ==
    /\ totalDurationSecs = 0
    /\ Succeeded
    /\ WorkersGone
    /\ jobsClosed
    /\ sink = InitData
    /\ enqueued = EmptyBag
    /\ fetches = EmptyBag

(* C36: for a base URL that carries a query string, the URL that           *)
(* resolveSegmentUrl returns for a segment path without a query of its own *)
(* still carries the query of the base.                                    *)
C36_QueryPreserved ==
    (/\ resolved # <<>>
     /\ Resolution.err = ""
     /\ Has(base, "?")
     /\ relative # <<>>
     /\ ~Has(relative, "?"))
        => LET q == SubSeq(base, IndexOf(base, "?"), Len(base))
               url == Resolution.url
           IN /\ Len(url) >= Len(q)
              /\ SubSeq(url, Len(url) - Len(q) + 1, Len(url)) = q

(***************************************************************************)
(* sanitizeFilename of main.go.  A string is the sequence of its           *)
(* characters; "a" stands for every character that is neither white space  *)
(* nor named in the function.                                              *)
(***************************************************************************)
MaxName == 3

WhiteSpace == {Space, Ctl}

Alphabet == {"a", "-", "/", "\\", ":", "*", "?", "\"", "<", ">", "|"} \cup WhiteSpace

Names == SeqsUpTo(Alphabet, MaxName)

(* strings.ReplaceAll(str, old, new) for a one-character old.              *)
RECURSIVE ReplaceAll(_, _, _)
ReplaceAll(str, old, new) ==
    IF str = <<>> THEN <<>>
    ELSE (IF Head(str) = old THEN new ELSE <<Head(str)>>) \o ReplaceAll(Tail(str), old, new)

(* strings.TrimSpace: without the leading and the trailing white space.    *)
RECURSIVE TrimLeft(_)
TrimLeft(str) ==
    IF str # <<>> /\ Head(str) \in WhiteSpace THEN TrimLeft(Tail(str)) ELSE str

RECURSIVE TrimRight(_)
TrimRight(str) ==
    IF str # <<>> /\ str[Len(str)] \in WhiteSpace
    THEN TrimRight(SubSeq(str, 1, Len(str) - 1))
    ELSE str

TrimSpace(str) == TrimRight(TrimLeft(str))

(* The nine replacements on a string.                                      *)
Replaced(str) ==
    LET s1 == ReplaceAll(str, "/", <<"-">>)
        s2 == ReplaceAll(s1, "\\", <<"-">>)
        s3 == ReplaceAll(s2, ":", <<"-">>)
        s4 == ReplaceAll(s3, "*", <<>>)
        s5 == ReplaceAll(s4, "?", <<>>)
        s6 == ReplaceAll(s5, "\"", <<>>)
        s7 == ReplaceAll(s6, "<", <<>>)
        s8 == ReplaceAll(s7, ">", <<>>)
    IN ReplaceAll(s8, "|", <<>>)

sanitizeTrimFirst(str) == Replaced(TrimSpace(str))

sanitizeFilename(str) == TrimSpace(Replaced(str))

InitSanitize ==
    /\ totalDurationSecs = 0
    /\ rep = [StartNumber |-> 1, Timescale |-> 1, Duration |-> 1]
    /\ urlFault = "none"
    /\ faulty = FALSE
    /\ InitState
    /\ NoRun
    /\ mpd = <<>>
    /\ targetHeight = 0
    /\ videoSel = NotCalled
    /\ audioSel = NotCalled
    /\ base = <<>>
    /\ relative = <<>>
    /\ resolved = <<>>
    /\ NoFetchCall
    /\ name \in Names
    /\ safe = <<>>

NotSanitizing ==
    UNCHANGED <<inputs, cancelled, mainVars, chanVars, wk, closer, ghostVars,
                dispatchVars, fsVars, runVars, mpd, targetHeight, videoSel, audioSel,
                base, relative, resolved, exchange, fetchRet, name>>

(* sanitizeFilename(name).                                                 *)
Sanitize ==
    /\ safe = <<>>
    /\ safe' = <<sanitizeFilename(name)>>
    /\ NotSanitizing

(* sanitizeFilename of what the first call returned.                       *)
SanitizeAgain ==
    /\ Len(safe) = 1
    /\ safe' = Append(safe, sanitizeFilename(safe[1]))
    /\ NotSanitizing

NextSanitize ==
    \/ Sanitize
    \/ SanitizeAgain

SpecSanitize == InitSanitize /\ [][NextSanitize]_vars

(* The characters that no result may hold.                                 *)
Forbidden == {"/", "\\", ":", "*", "?", "\"", "<", ">", "|"}

Dashed == {"/", "\\", ":"}

(* The string character by character: a dash for the three, nothing for    *)
(* the six.                                                                *)
RECURSIVE Mapped(_)
Mapped(str) ==
    IF str = <<>> THEN <<>>
    ELSE (IF Head(str) \in Dashed THEN <<"-">>
          ELSE IF Head(str) \in Forbidden THEN <<>>
          ELSE <<Head(str)>>) \o Mapped(Tail(str))

Trimmed(str) ==
    str = <<>> \/ (str[1] \notin WhiteSpace /\ str[Len(str)] \notin WhiteSpace)

(* C37: the result of sanitizeFilename holds none of / \ : * ? " < > | and *)
(* neither starts nor ends with white space; it is the input with '/',     *)
(* '\' and ':' made '-' and the other six deleted, without the white       *)
(* space around it; and sanitizeFilename of the result is the result.      *)
C37_Sanitized ==
    /\ \A n \in 1..Len(safe) :
          /\ \A k \in 1..Len(safe[n]) : safe[n][k] \notin Forbidden
          /\ Trimmed(safe[n])
    /\ safe # <<>> => safe[1] = TrimSpace(Mapped(name))
    /\ Len(safe) = 2 => safe[2] = safe[1]

(* " /*" gives "-" and "-" again.                                          *)
C37_Witness ==
    /\ name = <<Space, "/", "*">>
    /\ safe = <<(<<"-">>), (<<"-">>)>>
====
